---- MODULE Spec2Model ----
(***************************************************************************)
(* A model of claude-swarm: the Swarm orchestrator (swarm.py) running on   *)
(* the asyncio event loop, the persistence of SwarmState, and the pattern  *)
(* library (patterns.py) built on Swarm.run_prompt.                        *)
(*                                                                         *)
(* Python values are tagged records [t, v]; a text (a Python str's         *)
(* characters) is either plain characters, the rendering of a JSON value,  *)
(* a timestamp, or a concatenation of texts.  json.dumps maps a Python     *)
(* value to a JSON value, json.loads maps a JSON value back.               *)
(***************************************************************************)
EXTENDS Integers, Sequences, FiniteSets, TLC

(***************************************************************************)
(* Bounds of the model.                                                    *)
(***************************************************************************)
MaxOps == 2        \* operations called on one Swarm (a dispatch of n counts n)
MaxK == 2          \* largest max_concurrent tried
MaxMem == 6        \* longest memory of a loaded agent
MaxHist == 101     \* longest history of a saved state
MaxTasks == 3      \* longest task / stage list handed to a pattern
MaxAgents == 4     \* largest num_agents handed to competitive

(***************************************************************************)
(* Program constants.                                                      *)
(***************************************************************************)
MemoryWindow == 5      \* agent.memory[-5:]
DefaultMaxConcurrent == 5   \* Swarm(max_concurrent: int = 5)
DefaultMaxSubtasks == 5     \* hierarchical(max_subtasks: int = 5)
HistoryKeep == 100     \* self.history[-100:]

(***************************************************************************)
(* Texts and Python values.                                                *)
(***************************************************************************)
Lit(s) == [t |-> "plain", v |-> [s |-> s, ws |-> FALSE]]
Padded(s) == [t |-> "plain", v |-> [s |-> s, ws |-> TRUE]]
JsonText(j) == [t |-> "json", v |-> j]
Cat(chunks) == [t |-> "cat", v |-> chunks]
Stamp(n) == [t |-> "ts", v |-> n]
Num(n) == [t |-> "num", v |-> n]

PyNone == [t |-> "none", v |-> 0]
PyBool(b) == [t |-> "bool", v |-> b]
PyInt(n) == [t |-> "int", v |-> n]
PyStr(text) == [t |-> "str", v |-> text]
PyList(items) == [t |-> "list", v |-> items]
PyTuple(items) == [t |-> "tuple", v |-> items]
PyDict(pairs) == [t |-> "dict", v |-> pairs]
PyObj(repr) == [t |-> "obj", v |-> repr]

JNull == [t |-> "jnull", v |-> 0]
JBool(b) == [t |-> "jbool", v |-> b]
JNum(n) == [t |-> "jnum", v |-> n]
JStr(text) == [t |-> "jstr", v |-> text]
JArr(items) == [t |-> "jarr", v |-> items]
JObj(pairs) == [t |-> "jobj", v |-> pairs]

\* str.strip()
Strip(text) ==
    IF text.t = "plain" THEN [text EXCEPT !.v.ws = FALSE] ELSE text

\* seq[-n:]
LastN(seq, n) ==
    LET start == IF Len(seq) - n < 0 THEN 0 ELSE Len(seq) - n
    IN SubSeq(seq, start + 1, Len(seq))

\* dict helpers: a dict is a sequence of <<key, value>> in insertion order
HasKey(pairs, key) == \E i \in 1..Len(pairs) : pairs[i][1] = key
KeyIndex(pairs, key) == CHOOSE i \in 1..Len(pairs) : pairs[i][1] = key
DictGet(pairs, key, default) ==
    IF HasKey(pairs, key) THEN pairs[KeyIndex(pairs, key)][2] ELSE default
DictSet(pairs, key, value) ==
    IF HasKey(pairs, key)
    THEN [pairs EXCEPT ![KeyIndex(pairs, key)] = <<key, value>>]
    ELSE Append(pairs, <<key, value>>)
DictDel(pairs, key) ==
    LET i == KeyIndex(pairs, key)
    IN SubSeq(pairs, 1, i - 1) \o SubSeq(pairs, i + 1, Len(pairs))
\* {**a, **b}: b's keys override a's in place, new keys are appended
RECURSIVE DictMerge(_, _)
DictMerge(a, b) ==
    IF b = <<>> THEN a
    ELSE DictMerge(DictSet(a, Head(b)[1], Head(b)[2]), Tail(b))

(***************************************************************************)
(* json.dumps(value, default=str) and json.loads.                          *)
(***************************************************************************)
RECURSIVE JsonDumps(_, _)
JsonDumps(value, withDefault) ==
    CASE value.t = "none" -> JNull
      [] value.t = "bool" -> JBool(value.v)
      [] value.t = "int" -> JNum(value.v)
      [] value.t = "str" -> JStr(value.v)
      [] value.t \in {"list", "tuple"} ->
            JArr([i \in 1..Len(value.v) |-> JsonDumps(value.v[i], withDefault)])
      [] value.t = "dict" ->
            JObj([i \in 1..Len(value.v) |->
                    <<value.v[i][1], JsonDumps(value.v[i][2], withDefault)>>])
      [] value.t = "obj" ->
            IF withDefault THEN JStr(Lit(value.v))
            ELSE [t |-> "TypeError", v |-> value.v]

RECURSIVE Serializable(_)
Serializable(value) ==
    CASE value.t \in {"list", "tuple"} ->
            \A i \in 1..Len(value.v) : Serializable(value.v[i])
      [] value.t = "dict" ->
            \A i \in 1..Len(value.v) : Serializable(value.v[i][2])
      [] value.t = "obj" -> FALSE
      [] OTHER -> TRUE

RECURSIVE FromJson(_)
FromJson(j) ==
    CASE j.t = "jnull" -> PyNone
      [] j.t = "jbool" -> PyBool(j.v)
      [] j.t = "jnum" -> PyInt(j.v)
      [] j.t = "jstr" -> PyStr(j.v)
      [] j.t = "jarr" -> PyList([i \in 1..Len(j.v) |-> FromJson(j.v[i])])
      [] j.t = "jobj" ->
            PyDict([i \in 1..Len(j.v) |-> <<j.v[i][1], FromJson(j.v[i][2])>>])

\* json.loads(text): raises JSONDecodeError unless the text renders a JSON value
Parses(text) == text.t = "json"
JsonLoads(text) == FromJson(text.v)

(***************************************************************************)
(* The state.  Swarm instances are named: "main" is the Swarm the caller   *)
(* holds (or the one a pattern makes for its own prompts), "inner" the one *)
(* fan_out makes.  Only "main" ever has agents or shared context.          *)
(***************************************************************************)
VARIABLES
    swarm,           \* swarm id -> [max_concurrent, value, waiters, history]
    agents,          \* state.agents of "main": <<name, object>> in insertion order
    heap,            \* the Agent objects ever made, by object id
    shared_context,  \* state.shared_context of "main": <<key, value>> pairs
    inv,             \* every invoke / run_prompt coroutine, by id
    ready,           \* event loop: tasks made by gather that have not run yet
    calls,           \* every dispatch / broadcast / fan_out call, by id
    clock,           \* readings of datetime.now() so far
    file,            \* the state file
    loaded,          \* what the last SwarmState.load returned, if any
    cli,             \* the command-line processes run on the state file
    pat,             \* the pattern call being run, if any
    ops              \* operations called so far (bounds the model)

vars == <<swarm, agents, heap, shared_context, inv, ready, calls, clock, file, loaded, cli, pat, ops>>

SwarmIds == {"main", "inner"}
Names == {"a", "b"}
\* task texts are opaque to the program: the n-th coroutine made is handed
\* the n-th of these
TaskTexts == <<"t1", "t2", "t3", "t4", "t5", "t6">>
NextTask(n) == TaskTexts[Len(inv) + n]
ContextKeys == {"k"}
ContextValues == {PyList(<<PyStr(Lit("x")), PyNone>>)}
\* the persona each name is registered with
ConfigOf(name) ==
    IF name = "a"
    THEN [role |-> "eng", system_prompt |-> "", allowed_tools |-> PyNone]
    ELSE [role |-> "", system_prompt |-> "be terse",
          allowed_tools |-> PyList(<<PyStr(Lit("Read"))>>)]

\* What the external process can do once spawned.
ProcOutcomes ==
    { [returncode |-> 0, stderr |-> Lit(""),
       stdout |-> JsonText(JObj(<< <<"result", JStr(Lit("done"))>> >>))],
      [returncode |-> 0, stderr |-> Lit(""), stdout |-> Padded("not json")],
      [returncode |-> 1, stderr |-> Padded("boom"), stdout |-> Lit("")] }

\* proc.returncode, stdout and stderr of a process that has not exited
NoProc == [returncode |-> -1, stderr |-> Lit(""), stdout |-> Lit("")]
NoFile == [t |-> "absent", v |-> 0]
NotLoaded == [t |-> "none", v |-> 0]
\* the command-line processes that run "invoke" on the state file, each with
\* the Swarm it loaded, and the order of their reads and writes of the file
CliProcs == {1, 2}
NotStarted ==
    [pc |-> "idle", state |-> NotLoaded, agent_name |-> "", task |-> Lit(""),
     prompt |-> Lit(""), ret |-> PyNone]
NoCli == [run |-> [p \in CliProcs |-> NotStarted], log |-> <<>>]
\* no pattern has been called; a pattern call is [kind, pc, input (the goal or
\* the task / stage list), k (max_concurrent), cur (the coroutine it awaits),
\* call (the gather it awaits), results, subtasks, workers, ret]
NoPattern ==
    [kind |-> "none", pc |-> "none", input |-> <<>>, k |-> 0, cur |-> 0, call |-> 0,
     results |-> <<>>, subtasks |-> PyNone, workers |-> PyNone, ret |-> PyNone]

(***************************************************************************)
(* Swarm.__init__ and the Agent dataclass.                                 *)
(***************************************************************************)
\* one permit too many
NewSwarmExtraPermit(max_concurrent) ==
    [max_concurrent |-> max_concurrent, value |-> max_concurrent + 1,
     waiters |-> <<>>, history |-> <<>>]

NewSwarm(max_concurrent) ==
    [max_concurrent |-> max_concurrent, value |-> max_concurrent,
     waiters |-> <<>>, history |-> <<>>]

Agent(name, role, system_prompt, allowed_tools) ==
    [name |-> name, role |-> role, system_prompt |-> system_prompt,
     memory |-> <<>>, allowed_tools |-> allowed_tools]

Truthy(value) ==
    CASE value.t = "none" -> FALSE
      [] value.t \in {"list", "tuple", "dict"} -> value.v # <<>>
      [] OTHER -> TRUE

(***************************************************************************)
(* Swarm._build_prompt: the parts, joined by a blank line.                 *)
(***************************************************************************)
Join(parts) == [t |-> "join", v |-> parts]

IdentityPart(agent) ==
    [kind |-> "identity",
     text |-> Cat(<<Lit("You are "), Lit(agent.name), Lit(", a "),
                    Lit(agent.role), Lit(".")>>)]
SystemPart(agent) == [kind |-> "system", text |-> Lit(agent.system_prompt)]
ContextPart(ctx) ==
    [kind |-> "context",
     text |-> Cat(<<Lit("\n## Shared Context\n"),
                    JsonText(JsonDumps(PyDict(ctx), FALSE))>>)]
\* the slice is forgotten: the whole memory goes into the prompt
MemoryPartWhole(agent) ==
    [kind |-> "memory",
     text |-> Cat(<<Lit("\n## Your Recent Memory\n"),
                    JsonText(JsonDumps(PyList(agent.memory), FALSE))>>)]

MemoryPart(agent) ==
    [kind |-> "memory",
     text |-> Cat(<<Lit("\n## Your Recent Memory\n"),
                    JsonText(JsonDumps(PyList(LastN(agent.memory, MemoryWindow)),
                                       FALSE))>>)]
TaskPart(task) ==
    [kind |-> "task", text |-> Cat(<<Lit("\n## Task\n"), task>>)]

BuildPrompt(agent, ctx, task) ==
    Join((IF agent.role # "" THEN <<IdentityPart(agent)>> ELSE <<>>)
         \o (IF agent.system_prompt # "" THEN <<SystemPart(agent)>> ELSE <<>>)
         \o (IF ctx # <<>> THEN <<ContextPart(ctx)>> ELSE <<>>)
         \o (IF agent.memory # <<>> THEN <<MemoryPart(agent)>> ELSE <<>>)
         \o <<TaskPart(task)>>)

(***************************************************************************)
(* Swarm._invoke_claude: what it returns for a process that has exited.    *)
(***************************************************************************)
\* output that does not parse is reported as a failure
InvokeClaudeResultStrict(outcome) ==
    IF outcome.returncode # 0 \/ ~Parses(outcome.stdout)
    THEN PyDict(<< <<"success", PyBool(FALSE)>>,
                   <<"error", PyStr(Strip(outcome.stderr))>>,
                   <<"returncode", PyInt(outcome.returncode)>> >>)
    ELSE PyDict(<< <<"success", PyBool(TRUE)>>,
                   <<"result", JsonLoads(outcome.stdout)>> >>)

InvokeClaudeResult(outcome) ==
    IF outcome.returncode # 0
    THEN PyDict(<< <<"success", PyBool(FALSE)>>,
                   <<"error", PyStr(Strip(outcome.stderr))>>,
                   <<"returncode", PyInt(outcome.returncode)>> >>)
    ELSE IF Parses(outcome.stdout)
         THEN PyDict(<< <<"success", PyBool(TRUE)>>,
                        <<"result", JsonLoads(outcome.stdout)>> >>)
         ELSE PyDict(<< <<"success", PyBool(TRUE)>>,
                        <<"result", PyStr(Strip(outcome.stdout))>> >>)

Success(result) == DictGet(result.v, "success", PyBool(FALSE)).v

NotFoundResult(agent_name) ==
    PyDict(<< <<"success", PyBool(FALSE)>>,
              <<"error", PyStr(Cat(<<Lit("Agent '"), Lit(agent_name),
                                     Lit("' not found")>>))>> >>)

\* the success flag is not taken from the result
MemoryRecordAlwaysOk(now, task, result) ==
    PyDict(<< <<"timestamp", PyStr(Stamp(now))>>,
              <<"task", PyStr(task)>>,
              <<"result", DictGet(result.v, "result", PyNone)>>,
              <<"success", PyBool(TRUE)>> >>)

\* the record invoke appends to agent.memory
MemoryRecord(now, task, result) ==
    PyDict(<< <<"timestamp", PyStr(Stamp(now))>>,
              <<"task", PyStr(task)>>,
              <<"result", IF Success(result)
                          THEN DictGet(result.v, "result", PyNone)
                          ELSE DictGet(result.v, "error", PyNone)>>,
              <<"success", PyBool(Success(result))>> >>)

\* the agent's name is left out of the record
HistoryRecordUntagged(now, agent, task, result) ==
    PyDict(<< <<"timestamp", PyStr(Stamp(now))>>,
              <<"agent", PyNone>>,
              <<"task", PyStr(task)>>,
              <<"result", result>> >>)

\* the record invoke and run_prompt append to state.history
HistoryRecord(now, agent, task, result) ==
    PyDict(<< <<"timestamp", PyStr(Stamp(now))>>,
              <<"agent", agent>>,
              <<"task", PyStr(task)>>,
              <<"result", result>> >>)

\* the tag is forgotten
InvokeReturnUntagged(agent_name, result) == result

\* what invoke returns: {"agent": agent_name, **result}
InvokeReturn(agent_name, result) ==
    PyDict(DictMerge(<< <<"agent", PyStr(Lit(agent_name))>> >>, result.v))

\* what fan_out's run_task returns: {"index": idx, "task": task, **result}
RunTaskReturn(idx, task, result) ==
    PyDict(DictMerge(<< <<"index", PyInt(idx)>>, <<"task", PyStr(task)>> >>,
                     result.v))

(***************************************************************************)
(* Coroutines.  pc: "created" (a task gather made, not run yet), "queued"  *)
(* (in semaphore.acquire), "admitted" (woken with the permit, not resumed  *)
(* yet), "running" (the process is spawned and has not exited),            *)
(* "returned", "raised".                                                   *)
(***************************************************************************)
NewInv(sw, kind, agent_name, task, prompt, allowed_tools, call, idx) ==
    [sw |-> sw, kind |-> kind, agent_name |-> agent_name, task |-> task,
     agent |-> 0, prompt |-> prompt, allowed_tools |-> allowed_tools,
     pc |-> "created", proc |-> NoProc, result |-> PyNone, call |-> call, idx |-> idx]

\* the permit goes to the waiter that came last
WakeUpNextNewest(st) ==
    LET waiting == {n \in 1..Len(st.s.waiters) : st.iv[st.s.waiters[n]].pc = "queued"}
    IN IF waiting = {} THEN st
       ELSE LET n == CHOOSE m \in waiting : \A o \in waiting : m >= o
            IN [s |-> [st.s EXCEPT !.value = @ - 1],
                iv |-> [st.iv EXCEPT ![st.s.waiters[n]].pc = "admitted"]]

\* asyncio.Semaphore (CPython 3.11 and later): release hands the permit to
\* the first waiter that is still waiting; st is [s |-> a swarm, iv |-> inv]
WakeUpNext(st) ==
    LET waiting == {n \in 1..Len(st.s.waiters) : st.iv[st.s.waiters[n]].pc = "queued"}
    IN IF waiting = {} THEN st
       ELSE LET n == CHOOSE m \in waiting : \A o \in waiting : m <= o
            IN [s |-> [st.s EXCEPT !.value = @ - 1],
                iv |-> [st.iv EXCEPT ![st.s.waiters[n]].pc = "admitted"]]

\* the permit is not given back
ReleaseKept(st) == WakeUpNext(st)

Release(st) == WakeUpNext([st EXCEPT !.s.value = @ + 1])

Locked(s) == s.value = 0 \/ s.waiters # <<>>

\* create_subprocess_exec inside "async with self.semaphore": the process is
\* spawned, or the call raises (no such binary, argument list too long) and
\* the permit is given back on the way out
SpawnProcess(st, i, spawnOk) ==
    IF spawnOk THEN [st EXCEPT !.iv[i].pc = "running"]
    ELSE Release([st EXCEPT !.iv[i].pc = "raised"])

Acquire(st, i, spawnOk) ==
    IF Locked(st.s)
    THEN [s |-> [st.s EXCEPT !.waiters = Append(@, i)],
          iv |-> [st.iv EXCEPT ![i].pc = "queued"]]
    ELSE SpawnProcess([st EXCEPT !.s.value = @ - 1], i, spawnOk)

RemoveWaiter(waiters, i) ==
    LET n == CHOOSE m \in 1..Len(waiters) : waiters[m] = i
    IN SubSeq(waiters, 1, n - 1) \o SubSeq(waiters, n + 1, Len(waiters))

\* the registry test is missing: an unregistered name raises KeyError
BeginUnchecked(iv, i, spawnOk) ==
    LET r == iv[i]
        st == [s |-> swarm[r.sw], iv |-> iv]
    IN  IF r.kind = "invoke"
        THEN IF ~HasKey(agents, r.agent_name)
             THEN [st EXCEPT !.iv[i].pc = "raised"]
             ELSE LET obj == DictGet(agents, r.agent_name, 0)
                  IN Acquire([st EXCEPT
                                !.iv[i].agent = obj,
                                !.iv[i].prompt = BuildPrompt(heap[obj], shared_context, r.task),
                                !.iv[i].allowed_tools = heap[obj].allowed_tools],
                             i, spawnOk)
        ELSE Acquire(st, i, spawnOk)

\* the part of invoke / run_prompt that runs before the first suspension
Begin(iv, i, spawnOk) ==
    LET r == iv[i]
        st == [s |-> swarm[r.sw], iv |-> iv]
    IN  IF r.kind = "invoke"
        THEN IF ~HasKey(agents, r.agent_name)
             THEN [st EXCEPT !.iv[i].pc = "returned",
                             !.iv[i].result = NotFoundResult(r.agent_name)]
             ELSE LET obj == DictGet(agents, r.agent_name, 0)
                  IN Acquire([st EXCEPT
                                !.iv[i].agent = obj,
                                !.iv[i].prompt = BuildPrompt(heap[obj], shared_context, r.task),
                                !.iv[i].allowed_tools = heap[obj].allowed_tools],
                             i, spawnOk)
        ELSE Acquire(st, i, spawnOk)

InFlight(sw) == {i \in 1..Len(inv) : inv[i].sw = sw /\ inv[i].pc = "running"}
InGate(sw) ==
    {i \in 1..Len(inv) : inv[i].sw = sw /\ inv[i].pc \in {"admitted", "running"}}

(***************************************************************************)
(* Registry and shared context operations of Swarm.                        *)
(***************************************************************************)
AddAgent(name, cfg) ==
    /\ pat.kind = "none"
    /\ ops + 1 <= MaxOps
    /\ ops' = ops + 1
    /\ heap' = Append(heap, Agent(name, cfg.role, cfg.system_prompt, cfg.allowed_tools))
    /\ agents' = DictSet(agents, name, Len(heap) + 1)
    /\ UNCHANGED <<swarm, shared_context, inv, ready, calls, clock, file, loaded, cli, pat>>

RemoveAgent(name) ==
    /\ pat.kind = "none"
    /\ ops + 1 <= MaxOps
    /\ ops' = ops + 1
    /\ HasKey(agents, name)
    /\ agents' = DictDel(agents, name)
    /\ UNCHANGED <<swarm, heap, shared_context, inv, ready, calls, clock, file, loaded, cli, pat>>

UpdateContext(key, value) ==
    /\ pat.kind = "none"
    /\ ops + 1 <= MaxOps
    /\ ops' = ops + 1
    /\ shared_context' = DictSet(shared_context, key, value)
    /\ shared_context' # shared_context
    /\ UNCHANGED <<swarm, agents, heap, inv, ready, calls, clock, file, loaded, cli, pat>>

ClearContext ==
    /\ pat.kind = "none"
    /\ ops + 1 <= MaxOps
    /\ ops' = ops + 1
    /\ shared_context # <<>>
    /\ shared_context' = <<>>
    /\ UNCHANGED <<swarm, agents, heap, inv, ready, calls, clock, file, loaded, cli, pat>>

(***************************************************************************)
(* invoke, run_prompt, dispatch and broadcast called on "main".            *)
(***************************************************************************)
CallInvoke(agent_name, task, spawnOk) ==
    /\ pat.kind = "none"
    /\ ops + 1 <= MaxOps
    /\ ops' = ops + 1
    /\ LET r == NewInv("main", "invoke", agent_name, Lit(task), Lit(""), PyNone, 0, 0)
           st == Begin(Append(inv, r), Len(inv) + 1, spawnOk)
       IN /\ inv' = st.iv
          /\ swarm' = [swarm EXCEPT !["main"] = st.s]
    /\ UNCHANGED <<agents, heap, shared_context, ready, calls, clock, file, loaded, cli, pat>>

CallRunPrompt(prompt, allowed_tools, spawnOk) ==
    /\ pat.kind = "none"
    /\ ops + 1 <= MaxOps
    /\ ops' = ops + 1
    /\ LET r == NewInv("main", "run_prompt", "", Lit(prompt), Lit(prompt), allowed_tools, 0, 0)
           st == Begin(Append(inv, r), Len(inv) + 1, spawnOk)
       IN /\ inv' = st.iv
          /\ swarm' = [swarm EXCEPT !["main"] = st.s]
    /\ UNCHANGED <<agents, heap, shared_context, ready, calls, clock, file, loaded, cli, pat>>

\* what a call of n invocations takes of the model's budget
Cost(n) == IF n = 0 THEN 1 ELSE n

\* the coroutines are handed to gather last entry first
DispatchNewestFirst(kind, assignments) ==
    LET c == Len(calls) + 1
        n == Len(assignments)
        made == [k \in 1..n |->
                    NewInv("main", "invoke", assignments[k][1], Lit(assignments[k][2]),
                           Lit(""), PyNone, c, k - 1)]
    IN /\ inv' = inv \o made
       /\ ready' = ready \o [k \in 1..n |-> Len(inv) + n + 1 - k]
       /\ calls' = Append(calls,
                      [kind |-> kind, sw |-> "main", input |-> assignments,
                       children |-> [k \in 1..n |-> Len(inv) + n + 1 - k],
                       pc |-> IF n = 0 THEN "returned" ELSE "pending",
                       ret |-> PyList(<<>>)])

\* tasks = [self.invoke(name, task) for ...]; await asyncio.gather(*tasks)
Dispatch(kind, assignments) ==
    LET c == Len(calls) + 1
        n == Len(assignments)
        made == [k \in 1..n |->
                    NewInv("main", "invoke", assignments[k][1], Lit(assignments[k][2]),
                           Lit(""), PyNone, c, k - 1)]
    IN /\ inv' = inv \o made
       /\ ready' = ready \o [k \in 1..n |-> Len(inv) + k]
       /\ calls' = Append(calls,
                      [kind |-> kind, sw |-> "main", input |-> assignments,
                       children |-> [k \in 1..n |-> Len(inv) + k],
                       pc |-> IF n = 0 THEN "returned" ELSE "pending",
                       ret |-> PyList(<<>>)])

CallDispatch(assignments) ==
    /\ pat.kind = "none"
    /\ ops + Cost(Len(assignments)) <= MaxOps
    /\ ops' = ops + Cost(Len(assignments))
    /\ \A j, k \in 1..Len(assignments) : j # k => assignments[j][1] # assignments[k][1]
    /\ Dispatch("dispatch", assignments)
    /\ UNCHANGED <<swarm, agents, heap, shared_context, clock, file, loaded, cli, pat>>

CallBroadcast(task) ==
    /\ pat.kind = "none"
    /\ ops + Cost(Len(agents)) <= MaxOps
    /\ ops' = ops + Cost(Len(agents))
    /\ Dispatch("broadcast", [k \in 1..Len(agents) |-> <<agents[k][1], task>>])
    /\ UNCHANGED <<swarm, agents, heap, shared_context, clock, file, loaded, cli, pat>>

(***************************************************************************)
(* Event loop steps.                                                       *)
(***************************************************************************)
\* the next task made by gather runs up to its first suspension
StartTask(spawnOk) ==
    /\ ready # <<>>
    /\ LET i == Head(ready)
           st == Begin(inv, i, spawnOk)
       IN /\ inv' = st.iv
          /\ swarm' = [swarm EXCEPT ![inv[i].sw] = st.s]
    /\ ready' = Tail(ready)
    /\ UNCHANGED <<agents, heap, shared_context, calls, clock, file, loaded, cli, pat, ops>>

\* the prompt is assembled again once the waiter has the permit
ResumeRebuilds(i, spawnOk) ==
    /\ inv[i].pc = "admitted"
    /\ LET s0 == [swarm[inv[i].sw] EXCEPT !.waiters = RemoveWaiter(@, i)]
           built == IF inv[i].kind = "invoke"
                    THEN [inv EXCEPT ![i].prompt =
                             BuildPrompt(heap[inv[i].agent], shared_context, inv[i].task)]
                    ELSE inv
           st0 == [s |-> s0, iv |-> built]
           st1 == IF s0.value > 0 THEN WakeUpNext(st0) ELSE st0
           st == SpawnProcess(st1, i, spawnOk)
       IN /\ inv' = st.iv
          /\ swarm' = [swarm EXCEPT ![inv[i].sw] = st.s]
    /\ UNCHANGED <<agents, heap, shared_context, ready, calls, clock, file, loaded, cli, pat, ops>>

\* a woken waiter resumes in acquire and goes on to spawn its process
Resume(i, spawnOk) ==
    /\ inv[i].pc = "admitted"
    /\ LET s0 == [swarm[inv[i].sw] EXCEPT !.waiters = RemoveWaiter(@, i)]
           st0 == [s |-> s0, iv |-> inv]
           st1 == IF s0.value > 0 THEN WakeUpNext(st0) ELSE st0
           st == SpawnProcess(st1, i, spawnOk)
       IN /\ inv' = st.iv
          /\ swarm' = [swarm EXCEPT ![inv[i].sw] = st.s]
    /\ UNCHANGED <<agents, heap, shared_context, ready, calls, clock, file, loaded, cli, pat, ops>>

\* what the coroutine returns to its caller
ReturnValue(r, result) ==
    CASE r.kind = "invoke" -> InvokeReturn(r.agent_name, result)
      [] r.kind = "run_task" -> RunTaskReturn(r.idx, r.task, result)
      [] OTHER -> result

\* the memory is replaced instead of appended to
MemoryAfterOverwrite(memory, r, result) ==
    <<MemoryRecord(clock, r.task, result)>>

\* invoke's and run_prompt's tail: agent.memory.append, state.history.append
MemoryAfter(memory, r, result) ==
    Append(memory, MemoryRecord(clock, r.task, result))

\* run_prompt's record is put first instead of last
HistoryAfterPrepended(history, r, result) ==
    IF r.kind = "invoke"
    THEN Append(history, HistoryRecord(clock + 1, PyStr(Lit(r.agent_name)), r.task, result))
    ELSE <<HistoryRecord(clock, PyNone, r.prompt, result)>> \o history

HistoryAfter(history, r, result) ==
    Append(history,
           IF r.kind = "invoke"
           THEN HistoryRecord(clock + 1, PyStr(Lit(r.agent_name)), r.task, result)
           ELSE HistoryRecord(clock, PyNone, r.prompt, result))

\* the record goes to the agent registered under the name when the process
\* exits, if there is one
CompleteOnRegistered(i, outcome) ==
    /\ inv[i].pc = "running"
    /\ LET r == inv[i]
           result == InvokeClaudeResult(outcome)
           obj == IF HasKey(agents, r.agent_name)
                  THEN DictGet(agents, r.agent_name, 0) ELSE r.agent
           st == Release([s |-> swarm[r.sw],
                          iv |-> [inv EXCEPT ![i].pc = "returned",
                                             ![i].proc = outcome,
                                             ![i].result = ReturnValue(r, result)]])
       IN /\ inv' = st.iv
          /\ swarm' = [swarm EXCEPT
                          ![r.sw] = [st.s EXCEPT !.history = HistoryAfter(@, r, result)]]
          /\ heap' = IF r.kind = "invoke"
                     THEN [heap EXCEPT ![obj].memory = MemoryAfter(@, r, result)]
                     ELSE heap
          /\ clock' = IF r.kind = "invoke" THEN clock + 2 ELSE clock + 1
    /\ UNCHANGED <<agents, shared_context, ready, calls, file, loaded, cli, pat, ops>>

\* the process of coroutine i exits with `outcome`; communicate() returns and
\* the coroutine runs to its end without suspending again
Complete(i, outcome) ==
    /\ inv[i].pc = "running"
    /\ LET r == inv[i]
           result == InvokeClaudeResult(outcome)
           st == Release([s |-> swarm[r.sw],
                          iv |-> [inv EXCEPT ![i].pc = "returned",
                                             ![i].proc = outcome,
                                             ![i].result = ReturnValue(r, result)]])
       IN /\ inv' = st.iv
          /\ swarm' = [swarm EXCEPT
                          ![r.sw] = [st.s EXCEPT !.history = HistoryAfter(@, r, result)]]
          /\ heap' = IF r.kind = "invoke"
                     THEN [heap EXCEPT ![r.agent].memory = MemoryAfter(@, r, result)]
                     ELSE heap
          /\ clock' = IF r.kind = "invoke" THEN clock + 2 ELSE clock + 1
    /\ UNCHANGED <<agents, shared_context, ready, calls, file, loaded, cli, pat, ops>>

\* the children whose process exited non-zero are left out
GatherValuesOfSuccesses(c) ==
    LET Kept(i) == inv[i].proc.returncode <= 0
    IN PyList([k \in 1..Len(SelectSeq(calls[c].children, Kept)) |->
                 inv[SelectSeq(calls[c].children, Kept)[k]].result])

\* asyncio.gather: the list of the children's values, in argument order
GatherValues(c) == PyList([k \in 1..Len(calls[c].children) |-> inv[calls[c].children[k]].result])

GatherReturn(c) ==
    /\ calls[c].pc = "pending"
    /\ \A k \in 1..Len(calls[c].children) : inv[calls[c].children[k]].pc = "returned"
    /\ calls' = [calls EXCEPT ![c].pc = "returned", ![c].ret = GatherValues(c)]
    /\ UNCHANGED <<swarm, agents, heap, shared_context, inv, ready, clock, file, loaded, cli, pat, ops>>

\* the first exception of a child is raised in the caller of gather
GatherRaise(c) ==
    /\ calls[c].pc = "pending"
    /\ \E k \in 1..Len(calls[c].children) : inv[calls[c].children[k]].pc = "raised"
    /\ calls' = [calls EXCEPT ![c].pc = "raised"]
    /\ UNCHANGED <<swarm, agents, heap, shared_context, inv, ready, clock, file, loaded, cli, pat, ops>>

(***************************************************************************)
(* The Swarm used as a library: any operation at any time.                 *)
(***************************************************************************)
\* the agents a Swarm can be constructed with (a loaded state), in order
InitialNames == <<"a", "b">>
NewAgent(name) ==
    Agent(name, ConfigOf(name).role, ConfigOf(name).system_prompt,
          ConfigOf(name).allowed_tools)

\* the assignment maps over Names, in every insertion order
Assignments ==
    { <<>> }
    \cup { << <<n, NextTask(1)>> >> : n \in Names }
    \cup { << <<n, NextTask(1)>>, <<m, NextTask(2)>> >> : n \in Names, m \in Names }

Init ==
    /\ \E k \in 1..MaxK : swarm = [sw \in SwarmIds |-> NewSwarm(k)]
    /\ \E n \in 1..Len(InitialNames) :
          /\ heap = [k \in 1..n |-> NewAgent(InitialNames[k])]
          /\ agents = [k \in 1..n |-> <<InitialNames[k], k>>]
    /\ shared_context = <<>>
    /\ inv = <<>>
    /\ ready = <<>>
    /\ calls = <<>>
    /\ clock = 0
    /\ file = NoFile
    /\ loaded = NotLoaded
    /\ cli = NoCli
    /\ pat = NoPattern
    /\ ops = 0

Next ==
    \/ \E name \in Names : AddAgent(name, ConfigOf(name))
    \/ \E name \in Names : RemoveAgent(name)
    \/ \E key \in ContextKeys, value \in ContextValues : UpdateContext(key, value)
    \/ ClearContext
    \/ \E name \in Names, ok \in BOOLEAN : CallInvoke(name, NextTask(1), ok)
    \/ \E ok \in BOOLEAN : CallRunPrompt(NextTask(1), PyNone, ok)
    \/ \E a \in Assignments : CallDispatch(a)
    \/ CallBroadcast(NextTask(1))
    \/ \E ok \in BOOLEAN : StartTask(ok)
    \/ \E i \in 1..Len(inv), ok \in BOOLEAN : Resume(i, ok)
    \/ \E i \in 1..Len(inv), outcome \in ProcOutcomes : Complete(i, outcome)
    \/ \E c \in 1..Len(calls) : GatherReturn(c)
    \/ \E c \in 1..Len(calls) : GatherRaise(c)

Spec == Init /\ [][Next]_vars

(***************************************************************************)
(* Properties of the Swarm.                                                *)
(***************************************************************************)
IsPrefix(old, new) == Len(old) <= Len(new) /\ SubSeq(new, 1, Len(old)) = old
Field(value, key) == DictGet(value.v, key, PyNone)
HasField(value, key) == HasKey(value.v, key)

\* C1: in every reachable state the number of external processes in flight
\* in a Swarm is at most its max_concurrent.
C1_InFlightBounded ==
    \A sw \in SwarmIds : Cardinality(InFlight(sw)) <= swarm[sw].max_concurrent

\* the gate is full and holds an invocation back
C1_Witness ==
    /\ Cardinality(InFlight("main")) = swarm["main"].max_concurrent
    /\ \E i \in 1..Len(inv) : inv[i].pc = "queued"

\* C3: a dispatch whose entries all name agents that are registered when the
\* entry's invoke runs returns one result per entry; the k-th result carries
\* the k-th entry's agent name and the outcome of the k-th entry's process
\* (success exactly when it exited with zero, the trimmed stderr otherwise).
C3_DispatchTagged ==
    \A c \in 1..Len(calls) :
        (/\ calls[c].kind = "dispatch"
         /\ calls[c].pc = "returned"
         /\ \A k \in 1..Len(calls[c].children) : inv[calls[c].children[k]].agent # 0)
        => /\ Len(calls[c].ret.v) = Len(calls[c].input)
           /\ \A k \in 1..Len(calls[c].input) :
                LET res == calls[c].ret.v[k]
                    child == inv[calls[c].children[k]]
                IN /\ Field(res, "agent") = PyStr(Lit(calls[c].input[k][1]))
                   /\ Field(res, "success") = PyBool(child.proc.returncode = 0)
                   /\ child.proc.returncode = 0 => HasField(res, "result")
                   /\ child.proc.returncode # 0 =>
                        Field(res, "error") = PyStr(Strip(child.proc.stderr))

\* a dispatch to two agents has returned; the entry dispatched second finished
\* first and the two processes ended differently
C3_Witness ==
    \E c \in 1..Len(calls) :
        /\ calls[c].kind = "dispatch"
        /\ calls[c].pc = "returned"
        /\ Len(calls[c].input) = 2
        /\ LET first == inv[calls[c].children[1]]
               second == inv[calls[c].children[2]]
           IN /\ first.agent # 0 /\ second.agent # 0
              /\ first.proc.returncode = 1 /\ second.proc.returncode = 0
              /\ Field(swarm["main"].history[1], "agent") = PyStr(Lit(second.agent_name))

\* C4: whatever the overlap of the invoke calls on one Agent object, its
\* memory holds one record per completed call and History one record per
\* completed invocation.
Completed(i) == inv[i].pc = "returned" /\ inv[i].proc.returncode # -1
C4_NoLostUpdate ==
    /\ \A o \in 1..Len(heap) :
          Len(heap[o].memory) =
             Cardinality({i \in 1..Len(inv) :
                            inv[i].kind = "invoke" /\ inv[i].agent = o /\ Completed(i)})
    /\ Len(swarm["main"].history) =
          Cardinality({i \in 1..Len(inv) : inv[i].sw = "main" /\ Completed(i)})

\* two invoke calls on the same agent were in flight together (the prompt of
\* neither shows a memory) and both have completed
PromptKinds(prompt) == {prompt.v[n].kind : n \in 1..Len(prompt.v)}
C4_Witness ==
    \E i, j \in 1..Len(inv) :
        /\ i # j
        /\ inv[i].kind = "invoke" /\ inv[j].kind = "invoke"
        /\ inv[i].agent # 0 /\ inv[i].agent = inv[j].agent
        /\ Completed(i) /\ Completed(j)
        /\ "memory" \notin PromptKinds(inv[i].prompt)
        /\ "memory" \notin PromptKinds(inv[j].prompt)
        /\ Len(heap[inv[i].agent].memory) = 2

\* the invocation that completes in this step, if any
Completing(i) == inv[i].pc = "running" /\ inv'[i].pc = "returned"

\* C5: the completion of invoke(name, task) appends exactly one record to the
\* memory of the agent it was called on, holding the task and a success flag
\* that is true exactly when the process exited with zero, and exactly one
\* record to History; no other memory changes and no entry already in a
\* memory or in History is modified, in any step.
C5_InvokeAppendsOne ==
    [][ /\ \A o \in 1..Len(heap) :
             LET done == {i \in 1..Len(inv) :
                            inv[i].kind = "invoke" /\ inv[i].agent = o /\ Completing(i)}
             IN IF done = {}
                THEN heap'[o].memory = heap[o].memory
                ELSE \E i \in done :
                        /\ Len(heap'[o].memory) = Len(heap[o].memory) + 1
                        /\ IsPrefix(heap[o].memory, heap'[o].memory)
                        /\ LET rec == heap'[o].memory[Len(heap'[o].memory)]
                           IN /\ Field(rec, "task") = PyStr(inv[i].task)
                              /\ Field(rec, "success") = PyBool(inv'[i].proc.returncode = 0)
        /\ IsPrefix(swarm["main"].history, swarm'["main"].history)
        /\ \A i \in 1..Len(inv) :
             (inv[i].kind = "invoke" /\ Completing(i)) =>
                /\ Len(swarm'["main"].history) = Len(swarm["main"].history) + 1
                /\ LET h == swarm'["main"].history[Len(swarm'["main"].history)]
                   IN /\ Field(h, "agent") = PyStr(Lit(inv[i].agent_name))
                      /\ Field(h, "task") = PyStr(inv[i].task)
      ]_vars

\* an invoke on one agent has completed with a failed process while another
\* agent is registered: one memory record, flagged unsuccessful
C5_Witness ==
    \E o, q \in 1..Len(heap) :
        /\ o # q
        /\ Len(heap[o].memory) = 1
        /\ Field(heap[o].memory[1], "success") = PyBool(FALSE)
        /\ heap[q].memory = <<>>
        /\ Len(swarm["main"].history) = 1

\* the invoke coroutines that run their registry test in this step
Beginning(i) ==
    /\ inv'[i].kind = "invoke"
    /\ inv'[i].pc # "created"
    /\ (i > Len(inv) \/ inv[i].pc = "created")

\* C6: invoke on a name that is not registered returns a failure result
\* (success false, a not-found error) without raising, spawns no process,
\* takes no slot of the gate and leaves every memory, the shared context and
\* History as they were.
C6_NotFoundIsResult ==
    [][ \A i \in 1..Len(inv') :
          (Beginning(i) /\ ~HasKey(agents, inv'[i].agent_name)) =>
             /\ inv'[i].pc = "returned"
             /\ Field(inv'[i].result, "success") = PyBool(FALSE)
             /\ Field(inv'[i].result, "error") =
                   PyStr(Cat(<<Lit("Agent '"), Lit(inv'[i].agent_name), Lit("' not found")>>))
             /\ inv'[i].proc = NoProc
             /\ swarm' = swarm
             /\ heap' = heap
             /\ shared_context' = shared_context
      ]_vars

\* an invoke on an unregistered name has returned while the only permit of
\* the gate is taken by another invocation
C6_Witness ==
    \E i, j \in 1..Len(inv) :
        /\ inv[i].kind = "invoke" /\ inv[i].pc = "returned" /\ inv[i].agent = 0
        /\ inv[j].pc = "running"
        /\ swarm["main"].value = 0

(***************************************************************************)
(* Prompt assembly: a Swarm constructed on a loaded state whose agent "a"  *)
(* has a memory of any length up to MaxMem, invoked.                       *)
(***************************************************************************)
Personas ==
    { [role |-> ro, system_prompt |-> sp, allowed_tools |-> PyNone] :
        ro \in {"", "eng"}, sp \in {"", "be terse"} }

\* the n-th record of a loaded memory: stamped n, failed when n is even
LoadedRecord(n) ==
    MemoryRecord(n, Lit("old"),
                 IF n % 2 = 0
                 THEN PyDict(<< <<"success", PyBool(FALSE)>>, <<"error", PyStr(Lit("boom"))>>,
                                <<"returncode", PyInt(1)>> >>)
                 ELSE PyDict(<< <<"success", PyBool(TRUE)>>, <<"result", PyStr(Lit("done"))>> >>))

InitPrompt ==
    /\ \E k \in 1..MaxK : swarm = [sw \in SwarmIds |-> NewSwarm(k)]
    /\ \E m \in 0..MaxMem, persona \in Personas :
          /\ heap = << [Agent("a", persona.role, persona.system_prompt, persona.allowed_tools)
                          EXCEPT !.memory = [n \in 1..m |-> LoadedRecord(n)]] >>
          /\ clock = m + 1
    /\ agents = << <<"a", 1>> >>
    /\ shared_context \in { <<>> } \cup { << <<key, value>> >> : key \in ContextKeys, value \in ContextValues }
    /\ inv = <<>>
    /\ ready = <<>>
    /\ calls = <<>>
    /\ file = NoFile
    /\ loaded = NotLoaded
    /\ cli = NoCli
    /\ pat = NoPattern
    /\ ops = 0

NextPrompt ==
    \/ CallInvoke("a", NextTask(1), TRUE)
    \/ \E i \in 1..Len(inv) : Resume(i, TRUE)
    \/ \E i \in 1..Len(inv), outcome \in ProcOutcomes : Complete(i, outcome)

SpecPrompt == InitPrompt /\ [][NextPrompt]_vars

Min(a, b) == IF a <= b THEN a ELSE b
PartsOfKind(prompt, kind) == {n \in 1..Len(prompt.v) : prompt.v[n].kind = kind}

\* the prompt holds the min(m, 5) most recent of the m entries of `memory`,
\* oldest first, in one memory block when m > 0 and in none otherwise
RecentMemoryIn(prompt, memory) ==
    LET m == Len(memory)
        shown == Min(m, MemoryWindow)
        blocks == PartsOfKind(prompt, "memory")
    IN IF m = 0 THEN blocks = {}
       ELSE /\ Cardinality(blocks) = 1
            /\ \A n \in blocks :
                 LET listed == prompt.v[n].text.v[2].v.v
                 IN /\ Len(listed) = shown
                    /\ \A e \in 1..shown :
                          listed[e] = JsonDumps(memory[m - shown + e], FALSE)

\* the task block is the last part, and the only task block
TaskLast(prompt, task) ==
    /\ PartsOfKind(prompt, "task") = {Len(prompt.v)}
    /\ prompt.v[Len(prompt.v)].text = Cat(<<Lit("\n## Task\n"), task>>)

\* C7: the prompt assembled for an agent with m memory entries contains
\* exactly the min(m, 5) most recent entries in their original order; the
\* shared-context block is present exactly when the context is not empty, and
\* it and the memory block come before the task block, which is last.
C7_PromptWindow ==
    [][ \A i \in 1..Len(inv') :
          (Beginning(i) /\ inv'[i].agent # 0) =>
             /\ RecentMemoryIn(inv'[i].prompt, heap[inv'[i].agent].memory)
             /\ TaskLast(inv'[i].prompt, inv'[i].task)
             /\ (PartsOfKind(inv'[i].prompt, "context") # {}) = (shared_context # <<>>)
      ]_vars

\* a prompt built on a memory of more than five entries: it lists five, the
\* first of them the second record of the memory, after a context block
C7_Witness ==
    \E i \in 1..Len(inv) :
        /\ inv[i].agent # 0
        /\ Len(heap[inv[i].agent].memory) > MemoryWindow
        /\ PartsOfKind(inv[i].prompt, "context") # {}
        /\ \E n \in PartsOfKind(inv[i].prompt, "memory") :
              LET listed == inv[i].prompt.v[n].text.v[2].v.v
              IN /\ Len(listed) = MemoryWindow
                 /\ listed[1] = JsonDumps(LoadedRecord(2), FALSE)

(***************************************************************************)
(* Persistence: Agent.to_dict / from_dict, SwarmState.save / load.         *)
(***************************************************************************)
ToDict(agent) ==
    PyDict(<< <<"name", PyStr(Lit(agent.name))>>,
              <<"role", PyStr(Lit(agent.role))>>,
              <<"system_prompt", PyStr(Lit(agent.system_prompt))>>,
              <<"memory", PyList(agent.memory)>>,
              <<"allowed_tools", agent.allowed_tools>> >>)

\* cls(**data)
FromDict(data) ==
    [name |-> Field(data, "name").v.v.s,
     role |-> Field(data, "role").v.v.s,
     system_prompt |-> Field(data, "system_prompt").v.v.s,
     memory |-> Field(data, "memory").v,
     allowed_tools |-> Field(data, "allowed_tools")]

\* the SwarmState a Swarm holds: the registry with its Agent objects inlined
StateOf(sw) ==
    [agents |-> [k \in 1..Len(agents) |-> <<agents[k][1], heap[agents[k][2]]>>],
     shared_context |-> shared_context,
     history |-> swarm[sw].history]

\* the slice keeps the oldest entries instead of the newest
SaveTextOldest(state) ==
    JsonText(JsonDumps(
        PyDict(<< <<"agents", PyDict([k \in 1..Len(state.agents) |->
                                        <<state.agents[k][1], ToDict(state.agents[k][2])>>])>>,
                  <<"shared_context", PyDict(state.shared_context)>>,
                  <<"history", PyList(SubSeq(state.history, 1,
                                             Min(Len(state.history), HistoryKeep)))>> >>),
        TRUE))

\* Path(path).write_text(json.dumps({...}, indent=2, default=str))
SaveText(state) ==
    JsonText(JsonDumps(
        PyDict(<< <<"agents", PyDict([k \in 1..Len(state.agents) |->
                                        <<state.agents[k][1], ToDict(state.agents[k][2])>>])>>,
                  <<"shared_context", PyDict(state.shared_context)>>,
                  <<"history", PyList(LastN(state.history, HistoryKeep))>> >>),
        TRUE))

EmptyState == [agents |-> <<>>, shared_context |-> <<>>, history |-> <<>>]

\* the history is not read back
LoadStateNoHistory(text) ==
    IF text = NoFile THEN EmptyState
    ELSE LET data == JsonLoads(text)
             ags == DictGet(data.v, "agents", PyDict(<<>>)).v
         IN [agents |-> [k \in 1..Len(ags) |-> <<ags[k][1], FromDict(ags[k][2])>>],
             shared_context |-> DictGet(data.v, "shared_context", PyDict(<<>>)).v,
             history |-> <<>>]

\* SwarmState.load
LoadState(text) ==
    IF text = NoFile THEN EmptyState
    ELSE LET data == JsonLoads(text)
             ags == DictGet(data.v, "agents", PyDict(<<>>)).v
         IN [agents |-> [k \in 1..Len(ags) |-> <<ags[k][1], FromDict(ags[k][2])>>],
             shared_context |-> DictGet(data.v, "shared_context", PyDict(<<>>)).v,
             history |-> DictGet(data.v, "history", PyList(<<>>)).v]

Save ==
    /\ file' = SaveText(StateOf("main"))
    /\ file' # file
    /\ UNCHANGED <<swarm, agents, heap, shared_context, inv, ready, calls, clock, loaded, cli, pat, ops>>

Load ==
    /\ loaded' = [t |-> "state", v |-> LoadState(file)]
    /\ loaded' # loaded
    /\ UNCHANGED <<swarm, agents, heap, shared_context, inv, ready, calls, clock, file, cli, pat, ops>>

\* the states saved: up to two agents with memories of up to two records, a
\* shared context of JSON-like values, a history of up to MaxHist records
SavedContexts ==
    { <<>>,
      << <<"k", PyInt(1)>> >>,
      << <<"k", PyList(<<PyStr(Lit("x")), PyNone>>)>>,
         <<"j", PyDict(<< <<"on", PyBool(TRUE)>> >>)>> >> }

LoggedRecord(n) ==
    HistoryRecord(n,
                  IF n % 3 = 0 THEN PyNone ELSE PyStr(Lit(IF n % 3 = 1 THEN "a" ELSE "b")),
                  Lit("old"),
                  IF n % 2 = 0
                  THEN PyDict(<< <<"success", PyBool(FALSE)>>, <<"error", PyStr(Lit("boom"))>>,
                                 <<"returncode", PyInt(1)>> >>)
                  ELSE PyDict(<< <<"success", PyBool(TRUE)>>,
                                 <<"result", PyDict(<< <<"result", PyStr(Lit("done"))>> >>)>> >>))

InitPersist ==
    /\ \E h \in 0..MaxHist :
          swarm = [sw \in SwarmIds |->
                     [NewSwarm(1) EXCEPT !.history = [n \in 1..h |-> LoggedRecord(n)]]]
    /\ \E n \in 0..Len(InitialNames), m \in 0..2 :
          /\ heap = [k \in 1..n |->
                       [NewAgent(InitialNames[k]) EXCEPT
                           !.memory = [e \in 1..m |-> LoadedRecord(e)]]]
          /\ agents = [k \in 1..n |-> <<InitialNames[k], k>>]
    /\ shared_context \in SavedContexts
    /\ inv = <<>>
    /\ ready = <<>>
    /\ calls = <<>>
    /\ clock = 0
    /\ file = NoFile
    /\ loaded = NotLoaded
    /\ cli = NoCli
    /\ pat = NoPattern
    /\ ops = 0

NextPersist == Save \/ Load

SpecPersist == InitPersist /\ [][NextPersist]_vars

\* C8: save leaves the state in memory as it was, and a load of the saved
\* file yields the same agents in the same order (name, role, system prompt,
\* allowed tools, memory), the same shared context and the last
\* min(100, |history|) history entries in order, so that every agent's prompt
\* built on the loaded state equals the one built on the saved state.
C8_RoundTrip ==
    [][ /\ file' # file =>
             UNCHANGED <<swarm, agents, heap, shared_context>>
        /\ (loaded' # loaded /\ file # NoFile) =>
             LET was == StateOf("main")
                 now == loaded'.v
                 kept == Min(Len(was.history), HistoryKeep)
             IN /\ now.agents = was.agents
                /\ now.shared_context = was.shared_context
                /\ Len(now.history) = kept
                /\ \A n \in 1..kept :
                     now.history[n] = was.history[Len(was.history) - kept + n]
                /\ \A k \in 1..Len(was.agents) :
                     BuildPrompt(now.agents[k][2], now.shared_context, Lit("t1"))
                       = BuildPrompt(was.agents[k][2], was.shared_context, Lit("t1"))
      ]_vars

\* a state of two agents with memories and more than 100 history entries has
\* been saved and loaded back: the load holds 100 entries, the first of them
\* the second of the saved state
C8_Witness ==
    /\ loaded # NotLoaded
    /\ file # NoFile
    /\ Len(swarm["main"].history) = HistoryKeep + 1
    /\ Len(loaded.v.history) = HistoryKeep
    /\ loaded.v.history[1] = LoggedRecord(2)
    /\ Len(loaded.v.agents) = 2
    /\ loaded.v.agents[1][2].memory # <<>>
    /\ loaded.v.shared_context # <<>>

(***************************************************************************)
(* patterns.py: each pattern constructs its own Swarm and runs prompts     *)
(* through it.  A pattern's own run_prompt is awaited in the pattern's     *)
(* coroutine, so what follows its process's exit runs in the same step.    *)
(***************************************************************************)
\* the task, stage and goal texts handed to the patterns
PatternTexts == {Lit("t1"), Lit("t2")}
TaskLists == UNION {[1..n -> PatternTexts] : n \in 0..MaxTasks}

InitPattern ==
    /\ swarm = [sw \in SwarmIds |-> NewSwarm(DefaultMaxConcurrent)]
    /\ agents = <<>>
    /\ heap = <<>>
    /\ shared_context = <<>>
    /\ inv = <<>>
    /\ ready = <<>>
    /\ calls = <<>>
    /\ clock = 0
    /\ file = NoFile
    /\ loaded = NotLoaded
    /\ cli = NoCli
    /\ pat = NoPattern
    /\ ops = 0

\* run_prompt's tail once the process of coroutine i has exited: the permit
\* is released and the history record appended
Finish(i, outcome) ==
    LET r == inv[i]
        result == InvokeClaudeResult(outcome)
        st == Release([s |-> swarm[r.sw],
                       iv |-> [inv EXCEPT ![i].pc = "returned",
                                          ![i].proc = outcome,
                                          ![i].result = result]])
    IN [s |-> [st.s EXCEPT !.history = HistoryAfter(@, r, result)], iv |-> st.iv]

\* swarm.run_prompt(prompt, allowed_tools) up to its first suspension
RunPrompt(st, prompt, allowed_tools, spawnOk) ==
    Acquire([s |-> st.s,
             iv |-> Append(st.iv, NewInv("main", "run_prompt", "", prompt, prompt,
                                         allowed_tools, 0, 0))],
            Len(st.iv) + 1, spawnOk)

\* the pc of a pattern that has just called run_prompt
AfterRunPrompt(st, pc) == IF st.iv[Len(st.iv)].pc = "raised" THEN "raised" ELSE pc

\* [run_task(i, task) for i, task in enumerate(tasks)], numbered from one
RunTasksFromOne(c, tasks, allowed_tools) ==
    [n \in 1..Len(tasks) |->
        NewInv("inner", "run_task", "", tasks[n], tasks[n], allowed_tools, c, n)]

\* [run_task(i, task) for i, task in enumerate(tasks)]
RunTasks(c, tasks, allowed_tools) ==
    [n \in 1..Len(tasks) |->
        NewInv("inner", "run_task", "", tasks[n], tasks[n], allowed_tools, c, n - 1)]

\* the gather fan_out awaits
FanOutGather(first, tasks) ==
    [kind |-> "fan_out", sw |-> "inner", input |-> tasks,
     children |-> [n \in 1..Len(tasks) |-> first + n],
     pc |-> IF tasks = <<>> THEN "returned" ELSE "pending",
     ret |-> PyList(<<>>)]

\* sorted(results, key=lambda x: x["index"]): a stable insertion sort
RECURSIVE InsertByIndex(_, _)
InsertByIndex(sorted, x) ==
    IF sorted = <<>> THEN <<x>>
    ELSE IF Field(x, "index").v < Field(Head(sorted), "index").v
         THEN <<x>> \o sorted
         ELSE <<Head(sorted)>> \o InsertByIndex(Tail(sorted), x)

RECURSIVE SortedByIndex(_)
SortedByIndex(results) ==
    IF results = <<>> THEN <<>>
    ELSE InsertByIndex(SortedByIndex(SubSeq(results, 1, Len(results) - 1)),
                       results[Len(results)])

\* only the first result is returned
FanOutResultFirst(c) ==
    PyList(SubSeq(SortedByIndex(GatherValues(c).v), 1, Min(1, Len(calls[c].children))))

\* what fan_out returns once its gather has
FanOutResult(c) == PyList(SortedByIndex(GatherValues(c).v))

(***************************************************************************)
(* fan_out                                                                 *)
(***************************************************************************)
CallFanOut(tasks, max_concurrent, allowed_tools) ==
    /\ pat.kind = "none"
    /\ swarm' = [swarm EXCEPT !["inner"] = NewSwarm(max_concurrent)]
    /\ inv' = inv \o RunTasks(Len(calls) + 1, tasks, allowed_tools)
    /\ ready' = ready \o [n \in 1..Len(tasks) |-> Len(inv) + n]
    /\ calls' = Append(calls, FanOutGather(Len(inv), tasks))
    /\ pat' = [NoPattern EXCEPT !.kind = "fan_out", !.input = tasks,
                                !.k = max_concurrent, !.call = Len(calls) + 1,
                                !.pc = IF tasks = <<>> THEN "returned" ELSE "gather",
                                !.ret = IF tasks = <<>> THEN PyList(SortedByIndex(<<>>))
                                        ELSE PyNone]
    /\ UNCHANGED <<agents, heap, shared_context, clock, file, loaded, cli, ops>>

\* a worker of fan_out: run_task's run_prompt completes
CompleteTask(i, outcome) ==
    /\ inv[i].kind = "run_task"
    /\ Complete(i, outcome)

FanOutReturn ==
    /\ pat.kind = "fan_out"
    /\ pat.pc = "gather"
    /\ \A n \in 1..Len(calls[pat.call].children) :
         inv[calls[pat.call].children[n]].pc = "returned"
    /\ calls' = [calls EXCEPT ![pat.call].pc = "returned",
                              ![pat.call].ret = GatherValues(pat.call)]
    /\ pat' = [pat EXCEPT !.pc = "returned", !.ret = FanOutResult(pat.call)]
    /\ UNCHANGED <<swarm, agents, heap, shared_context, inv, ready, clock, file, loaded, cli, ops>>

\* a run_task raised (its process could not be spawned): gather raises in
\* fan_out, which has no handler
FanOutRaise ==
    /\ pat.kind = "fan_out"
    /\ pat.pc = "gather"
    /\ \E n \in 1..Len(calls[pat.call].children) :
         inv[calls[pat.call].children[n]].pc = "raised"
    /\ calls' = [calls EXCEPT ![pat.call].pc = "raised"]
    /\ pat' = [pat EXCEPT !.pc = "raised"]
    /\ UNCHANGED <<swarm, agents, heap, shared_context, inv, ready, clock, file, loaded, cli, ops>>

NextFanOut ==
    \/ \E tasks \in TaskLists, k \in 1..MaxK : CallFanOut(tasks, k, PyNone)
    \/ \E ok \in BOOLEAN : StartTask(ok)
    \/ \E i \in 1..Len(inv), ok \in BOOLEAN : Resume(i, ok)
    \/ \E i \in 1..Len(inv), outcome \in ProcOutcomes : CompleteTask(i, outcome)
    \/ FanOutReturn
    \/ FanOutRaise

SpecFanOut == InitPattern /\ [][NextFanOut]_vars

\* C2: whatever the order in which the processes exit, a fan_out over T that
\* returns, returns exactly Len(T) results, the i-th (from zero) carrying
\* index i, task T[i] and the outcome of the i-th task's process.
C2_FanOutOrdered ==
    (pat.kind = "fan_out" /\ pat.pc = "returned")
    => /\ Len(pat.ret.v) = Len(pat.input)
       /\ \A n \in 1..Len(pat.input) :
            LET res == pat.ret.v[n]
                child == inv[calls[pat.call].children[n]]
            IN /\ Field(res, "index") = PyInt(n - 1)
               /\ Field(res, "task") = PyStr(pat.input[n])
               /\ Field(res, "success") = PyBool(child.proc.returncode = 0)

\* a fan_out over three tasks has returned, and the process of its last task
\* was the first to exit, that of its first task the last
C2_Witness ==
    /\ pat.kind = "fan_out"
    /\ pat.pc = "returned"
    /\ Len(pat.input) = 3
    /\ pat.input[1] # pat.input[3]
    /\ Field(swarm["inner"].history[1], "task") = PyStr(pat.input[3])
    /\ Field(swarm["inner"].history[1], "timestamp") = PyStr(Stamp(0))
    /\ Field(swarm["inner"].history[3], "task") = PyStr(pat.input[1])

(***************************************************************************)
(* pipeline                                                                *)
(***************************************************************************)
\* the whole entry of the previous stage is serialized, not its "result"
StagePromptWholeEntry(stage, prev) ==
    Cat(<<stage, Lit("\n\n## Previous Stage Output\n"),
          JsonText(JsonDumps(prev, FALSE))>>)

\* f"{stage}\n\n## Previous Stage Output\n{json.dumps(prev.get('result', ''), indent=2)}"
StagePrompt(stage, prev) ==
    Cat(<<stage, Lit("\n\n## Previous Stage Output\n"),
          JsonText(JsonDumps(DictGet(prev.v, "result", PyStr(Lit(""))), FALSE))>>)

\* {"stage": i, "prompt": stage, **result}
StageEntry(i, stage, result) ==
    PyDict(DictMerge(<< <<"stage", PyInt(i)>>, <<"prompt", PyStr(stage)>> >>, result.v))

PipelineReturn(results) ==
    PyDict(<< <<"stages", PyList(results)>>,
              <<"final", IF results # <<>> THEN results[Len(results)] ELSE PyNone>> >>)

CallPipeline(stages, allowed_tools, spawnOk) ==
    /\ pat.kind = "none"
    /\ LET made == [s |-> NewSwarm(DefaultMaxConcurrent), iv |-> inv]
           st == IF stages = <<>> THEN made
                 ELSE RunPrompt(made, stages[1], allowed_tools, spawnOk)
       IN /\ swarm' = [swarm EXCEPT !["main"] = st.s]
          /\ inv' = st.iv
          /\ pat' = [NoPattern EXCEPT
                        !.kind = "pipeline", !.input = stages,
                        !.k = DefaultMaxConcurrent,
                        !.cur = Len(st.iv),
                        !.pc = IF stages = <<>> THEN "returned"
                               ELSE AfterRunPrompt(st, "stage"),
                        !.ret = IF stages = <<>> THEN PipelineReturn(<<>>) ELSE PyNone]
    /\ UNCHANGED <<agents, heap, shared_context, ready, calls, clock, file, loaded, cli, ops>>

\* the process of the current stage exits: its entry is appended, and the
\* next stage's run_prompt is called or the pipeline returns
PipelineStage(outcome, spawnOk) ==
    /\ pat.kind = "pipeline"
    /\ pat.pc = "stage"
    /\ inv[pat.cur].pc = "running"
    /\ LET i == Len(pat.results)
           stages == pat.input
           done == Finish(pat.cur, outcome)
           results == Append(pat.results,
                             StageEntry(i, stages[i + 1], done.iv[pat.cur].result))
           more == Len(results) < Len(stages)
           st == IF more
                 THEN RunPrompt(done, StagePrompt(stages[i + 2], results[Len(results)]),
                                inv[pat.cur].allowed_tools, spawnOk)
                 ELSE done
       IN /\ swarm' = [swarm EXCEPT !["main"] = st.s]
          /\ inv' = st.iv
          /\ pat' = [pat EXCEPT
                        !.results = results,
                        !.cur = Len(st.iv),
                        !.pc = IF more THEN AfterRunPrompt(st, "stage") ELSE "returned",
                        !.ret = IF more THEN PyNone ELSE PipelineReturn(results)]
    /\ clock' = clock + 1
    /\ UNCHANGED <<agents, heap, shared_context, ready, calls, file, loaded, cli, ops>>

NextPipeline ==
    \/ \E stages \in TaskLists, ok \in BOOLEAN : CallPipeline(stages, PyNone, ok)
    \/ \E outcome \in ProcOutcomes, ok \in BOOLEAN : PipelineStage(outcome, ok)

SpecPipeline == InitPattern /\ [][NextPipeline]_vars

\* the coroutines of a pipeline are its stages, in order
StagesRunOneByOne ==
    /\ Cardinality(InFlight("main")) <= 1
    /\ \A n \in 1..Len(inv) :
         /\ n > 1 => inv[n - 1].pc = "returned"
         /\ n < Len(inv) => inv[n].pc = "returned"

StagesReturned ==
    pat.pc = "returned"
    => /\ Len(Field(pat.ret, "stages").v) = Len(pat.input)
       /\ Len(inv) = Len(pat.input)
       /\ \A n \in 1..Len(pat.input) :
            Field(pat.ret, "stages").v[n] = StageEntry(n - 1, pat.input[n], inv[n].result)
       /\ Field(pat.ret, "final") =
            IF pat.input = <<>> THEN PyNone
            ELSE Field(pat.ret, "stages").v[Len(pat.input)]

Serialized(value) == JsonText(JsonDumps(value, FALSE))

\* C9 as stated: the stages run one by one, the prompt of every stage after
\* the first is the stage text, the "Previous Stage Output" label and the
\* serialization of the previous stage's result, and the stage list returned
\* has one entry per stage in order, 'final' being the last.
C9_PreviousResultInPrompt ==
    pat.kind = "pipeline"
    => /\ StagesRunOneByOne
       /\ StagesReturned
       /\ \A n \in 2..Len(inv) :
            /\ HasField(inv[n - 1].result, "result")
            /\ inv[n].prompt =
                 Cat(<<pat.input[n], Lit("\n\n## Previous Stage Output\n"),
                       Serialized(Field(inv[n - 1].result, "result"))>>)

\* C9 amended: as C9, but what is serialized is the "result" field of the
\* previous stage's result when that stage succeeded, and the empty string
\* when it failed (a failed stage has an error and no "result"); 'final' is
\* None for an empty stage list.
C9_PreviousOutputInPrompt ==
    pat.kind = "pipeline"
    => /\ StagesRunOneByOne
       /\ StagesReturned
       /\ \A n \in 2..Len(inv) :
            inv[n].prompt =
              Cat(<<pat.input[n], Lit("\n\n## Previous Stage Output\n"),
                    IF inv[n - 1].proc.returncode = 0
                    THEN Serialized(Field(inv[n - 1].result, "result"))
                    ELSE Serialized(PyStr(Lit("")))>>)

\* a pipeline of three stages has returned; its second stage failed, so the
\* third was given the empty string, and the second was given the first's output
C9_Witness ==
    /\ pat.kind = "pipeline"
    /\ pat.pc = "returned"
    /\ Len(pat.input) = 3
    /\ inv[1].proc.returncode = 0
    /\ inv[2].proc.returncode # 0
    /\ inv[2].prompt = Cat(<<pat.input[2], Lit("\n\n## Previous Stage Output\n"),
                             Serialized(PyStr(Lit("not json")))>>)
    /\ inv[3].prompt = Cat(<<pat.input[3], Lit("\n\n## Previous Stage Output\n"),
                             Serialized(PyStr(Lit("")))>>)
    /\ Field(pat.ret, "final") = StageEntry(2, pat.input[3], inv[3].result)

(***************************************************************************)
(* hierarchical: the planner and the synthesis run on the pattern's own    *)
(* Swarm ("main"), the workers on the Swarm fan_out constructs ("inner").  *)
(***************************************************************************)
PlanPrompt(goal, max_subtasks) ==
    Cat(<<Lit("You are a planning coordinator. Break this goal into "),
          Num(max_subtasks),
          Lit(" or fewer independent subtasks that can be executed in parallel.\n\nReturn ONLY a JSON array of task strings. No explanation, no markdown, just the JSON array.\n\nGoal: "),
          goal>>)

SynthPrompt(goal, worker_results) ==
    Cat(<<Lit("You are a synthesis coordinator. Combine these worker results into a cohesive response.\n\n## Original Goal\n"),
          goal,
          Lit("\n\n## Subtask Results\n"),
          JsonText(JsonDumps(worker_results, FALSE)),
          Lit("\n\nProvide a unified, coherent response that addresses the original goal.")>>)

\* the try block of hierarchical: the subtasks derived from plan_result
ParseSubtasks(plan_result, goal) ==
    LET got == DictGet(plan_result.v, "result", PyDict(<<>>))
        raw == IF got.t = "dict"
               THEN DictGet(got.v, "result", PyStr(JsonText(JArr(<<>>))))
               ELSE got
    IN IF raw.t = "str" /\ ~Parses(raw.v)
       THEN PyList(<<PyStr(goal)>>)                 \* json.JSONDecodeError
       ELSE LET subtasks == IF raw.t = "str" THEN JsonLoads(raw.v) ELSE raw
            IN IF subtasks.t # "list" THEN PyList(<<PyStr(goal)>>) ELSE subtasks

HierarchicalReturn(goal, subtasks, worker_results, synthesis) ==
    PyDict(<< <<"goal", PyStr(goal)>>, <<"subtasks", subtasks>>,
              <<"worker_results", worker_results>>, <<"synthesis", synthesis>> >>)

\* what the planner's process can do
TwoSubtasks == JArr(<<JStr(Lit("s1")), JStr(Lit("s2"))>>)
PlannerOutcomes ==
    { [returncode |-> 0, stderr |-> Lit(""), stdout |-> JsonText(js)] :
         js \in { JObj(<< <<"result", JStr(JsonText(TwoSubtasks))>> >>),
                  JObj(<< <<"result", JStr(JsonText(JArr(<<>>)))>> >>),
                  JObj(<< <<"result", JStr(Lit("Here is the plan"))>> >>),
                  JObj(<< <<"result", JStr(JsonText(JNum(3)))>> >>),
                  JObj(<< <<"result", JObj(<< <<"note", JStr(Lit("x"))>> >>)>> >>),
                  JObj(<< <<"cost", JNum(1)>> >>),
                  JArr(<<JStr(Lit("s1"))>>),
                  JNum(7) } }
    \cup { [returncode |-> 0, stderr |-> Lit(""), stdout |-> Padded("not json")],
           [returncode |-> 1, stderr |-> Padded("boom"), stdout |-> Lit("")] }

CallHierarchical(goal, max_subtasks, max_concurrent, allowed_tools, spawnOk) ==
    /\ pat.kind = "none"
    /\ LET st == RunPrompt([s |-> NewSwarm(max_concurrent), iv |-> inv],
                           PlanPrompt(goal, max_subtasks), PyNone, spawnOk)
       IN /\ swarm' = [swarm EXCEPT !["main"] = st.s]
          /\ inv' = st.iv
          /\ pat' = [NoPattern EXCEPT
                        !.kind = "hierarchical", !.input = <<goal>>,
                        !.k = max_concurrent, !.cur = Len(st.iv),
                        !.results = <<allowed_tools>>,
                        !.pc = AfterRunPrompt(st, "plan")]
    /\ UNCHANGED <<agents, heap, shared_context, ready, calls, clock, file, loaded, cli, ops>>

\* the planner's process exits: the subtasks are parsed and fanned out; a
\* fan_out over no task returns at once and the synthesis is called
PlannerDone(outcome, spawnOk) ==
    /\ pat.kind = "hierarchical"
    /\ pat.pc = "plan"
    /\ inv[pat.cur].pc = "running"
    /\ LET goal == pat.input[1]
           done == Finish(pat.cur, outcome)
           subtasks == ParseSubtasks(done.iv[pat.cur].result, goal)
           tasks == [n \in 1..Len(subtasks.v) |-> subtasks.v[n].v]
           c == Len(calls) + 1
           st == IF tasks = <<>>
                 THEN RunPrompt(done, SynthPrompt(goal, PyList(SortedByIndex(<<>>))),
                                PyNone, spawnOk)
                 ELSE [done EXCEPT !.iv = @ \o RunTasks(c, tasks, pat.results[1])]
       IN /\ swarm' = [swarm EXCEPT !["main"] = st.s,
                                    !["inner"] = NewSwarm(pat.k)]
          /\ inv' = st.iv
          /\ ready' = ready \o [n \in 1..Len(tasks) |-> Len(inv) + n]
          /\ calls' = Append(calls, FanOutGather(Len(inv), tasks))
          /\ pat' = [pat EXCEPT
                        !.subtasks = subtasks,
                        !.call = c,
                        !.cur = IF tasks = <<>> THEN Len(st.iv) ELSE 0,
                        !.workers = IF tasks = <<>> THEN PyList(<<>>) ELSE PyNone,
                        !.pc = IF tasks = <<>> THEN AfterRunPrompt(st, "synthesis")
                               ELSE "workers"]
    /\ clock' = clock + 1
    /\ UNCHANGED <<agents, heap, shared_context, file, loaded, cli, ops>>

\* fan_out returns the workers' results and the synthesis is called
WorkersDone(spawnOk) ==
    /\ pat.kind = "hierarchical"
    /\ pat.pc = "workers"
    /\ \A n \in 1..Len(calls[pat.call].children) :
         inv[calls[pat.call].children[n]].pc = "returned"
    /\ LET worker_results == FanOutResult(pat.call)
           st == RunPrompt([s |-> swarm["main"], iv |-> inv],
                           SynthPrompt(pat.input[1], worker_results), PyNone, spawnOk)
       IN /\ swarm' = [swarm EXCEPT !["main"] = st.s]
          /\ inv' = st.iv
          /\ calls' = [calls EXCEPT ![pat.call].pc = "returned",
                                    ![pat.call].ret = GatherValues(pat.call)]
          /\ pat' = [pat EXCEPT !.workers = worker_results,
                                !.cur = Len(st.iv),
                                !.pc = AfterRunPrompt(st, "synthesis")]
    /\ UNCHANGED <<agents, heap, shared_context, ready, clock, file, loaded, cli, ops>>

\* a worker raised: fan_out raises, and so does hierarchical
WorkersRaise ==
    /\ pat.kind = "hierarchical"
    /\ pat.pc = "workers"
    /\ \E n \in 1..Len(calls[pat.call].children) :
         inv[calls[pat.call].children[n]].pc = "raised"
    /\ calls' = [calls EXCEPT ![pat.call].pc = "raised"]
    /\ pat' = [pat EXCEPT !.pc = "raised"]
    /\ UNCHANGED <<swarm, agents, heap, shared_context, inv, ready, clock, file, loaded, cli, ops>>

SynthesisDone(outcome) ==
    /\ pat.kind = "hierarchical"
    /\ pat.pc = "synthesis"
    /\ inv[pat.cur].pc = "running"
    /\ LET done == Finish(pat.cur, outcome)
       IN /\ swarm' = [swarm EXCEPT !["main"] = done.s]
          /\ inv' = done.iv
          /\ pat' = [pat EXCEPT
                        !.pc = "returned",
                        !.ret = HierarchicalReturn(pat.input[1], pat.subtasks, pat.workers,
                                                   done.iv[pat.cur].result)]
    /\ clock' = clock + 1
    /\ UNCHANGED <<agents, heap, shared_context, ready, calls, file, loaded, cli, ops>>

\* the max_subtasks hierarchical is called with
SubtaskLimits == {1, DefaultMaxSubtasks}

NextHierarchical ==
    \/ \E goal \in PatternTexts, limit \in SubtaskLimits, k \in 1..MaxK, ok \in BOOLEAN :
         CallHierarchical(goal, limit, k, PyNone, ok)
    \/ \E outcome \in PlannerOutcomes, ok \in BOOLEAN : PlannerDone(outcome, ok)
    \/ \E ok \in BOOLEAN : StartTask(ok)
    \/ \E i \in 1..Len(inv), ok \in BOOLEAN : Resume(i, ok)
    \/ \E i \in 1..Len(inv), outcome \in ProcOutcomes : CompleteTask(i, outcome)
    \/ \E ok \in BOOLEAN : WorkersDone(ok)
    \/ WorkersRaise
    \/ \E outcome \in ProcOutcomes : SynthesisDone(outcome)

SpecHierarchical == InitPattern /\ [][NextHierarchical]_vars

\* list data: a list, or a string that is the JSON text of a list
IsListData(value) ==
    \/ value.t = "list"
    \/ value.t = "str" /\ Parses(value.v) /\ JsonLoads(value.v).t = "list"

\* the planner's process gave valid structured list data: it exited with
\* zero and its output is list data or an object whose "result" is
PlanCarriesList(proc) ==
    /\ proc.returncode = 0
    /\ LET payload == IF Parses(proc.stdout) THEN JsonLoads(proc.stdout)
                      ELSE PyStr(Strip(proc.stdout))
       IN \/ IsListData(payload)
          \/ /\ payload.t = "dict"
             /\ HasKey(payload.v, "result")
             /\ IsListData(Field(payload, "result"))

Workers == {i \in 1..Len(inv) : inv[i].kind = "run_task"}

\* C10: once the planner of hierarchical has completed with an outcome that
\* is not valid structured list data (unparseable text, a parsed value that
\* is no list, an object carrying no list, a failed invocation), the
\* subtasks are exactly [goal] and exactly one worker invocation is made.
C10_FallbackToGoal ==
    (/\ pat.kind = "hierarchical"
     /\ pat.pc \in {"workers", "synthesis", "returned"}
     /\ ~PlanCarriesList(inv[1].proc))
    => /\ pat.subtasks = PyList(<<PyStr(pat.input[1])>>)
       /\ Cardinality(Workers) = 1
       /\ \A i \in Workers : inv[i].task = pat.input[1]

(***************************************************************************)
(* The aggregating calls side by side: one dispatch (or several, within    *)
(* the budget) on a constructed Swarm, or one fan_out, or one pipeline.    *)
(***************************************************************************)
\* no call has been made yet
Fresh == pat.kind = "none" /\ inv = <<>> /\ calls = <<>>

\* a coroutine made by a gather completes
CompleteChild(i, outcome) ==
    /\ inv[i].call # 0
    /\ Complete(i, outcome)

DispatchReturn(c) ==
    /\ calls[c].kind \in {"dispatch", "broadcast"}
    /\ GatherReturn(c)

DispatchRaise(c) ==
    /\ calls[c].kind \in {"dispatch", "broadcast"}
    /\ GatherRaise(c)

NextAggregate ==
    \/ \E a \in Assignments : CallDispatch(a)
    \/ \E tasks \in TaskLists, k \in 1..MaxK : Fresh /\ CallFanOut(tasks, k, PyNone)
    \/ \E stages \in TaskLists, ok \in BOOLEAN : Fresh /\ CallPipeline(stages, PyNone, ok)
    \/ \E ok \in BOOLEAN : StartTask(ok)
    \/ \E i \in 1..Len(inv), ok \in BOOLEAN : Resume(i, ok)
    \/ \E i \in 1..Len(inv), outcome \in ProcOutcomes : CompleteChild(i, outcome)
    \/ \E c \in 1..Len(calls) : DispatchReturn(c)
    \/ \E c \in 1..Len(calls) : DispatchRaise(c)
    \/ FanOutReturn
    \/ FanOutRaise
    \/ \E outcome \in ProcOutcomes, ok \in BOOLEAN : PipelineStage(outcome, ok)

SpecAggregate == Init /\ [][NextAggregate]_vars

\* the entry of an aggregate result that answers coroutine r carries the
\* failure of r's process, if it failed
CarriesFailure(entry, r) ==
    r.proc.returncode > 0
    => /\ Field(entry, "success") = PyBool(FALSE)
       /\ Field(entry, "error") = PyStr(Strip(r.proc.stderr))
       /\ Field(entry, "returncode") = PyInt(r.proc.returncode)

\* a coroutine raised: its process could not be spawned
SomeRaised(children) == \E n \in 1..Len(children) : inv[children[n]].pc = "raised"

\* C11: a non-zero exit never aborts dispatch, fan_out or pipeline: the call
\* ends without a result only when a coroutine of it raised; until then every
\* coroutine whose process exited non-zero has returned a result and the
\* others go on; the result returned has one entry per input, in order, a
\* failed entry carrying success false, the trimmed stderr and the exit code.
C11_NoEarlyAbort ==
    /\ \A c \in 1..Len(calls) :
         /\ calls[c].pc = "raised" => SomeRaised(calls[c].children)
         /\ calls[c].pc = "returned" =>
              /\ Len(calls[c].ret.v) = Len(calls[c].input)
              /\ \A n \in 1..Len(calls[c].input) :
                   /\ inv[calls[c].children[n]].pc = "returned"
                   /\ CarriesFailure(calls[c].ret.v[n], inv[calls[c].children[n]])
    /\ pat.kind = "fan_out" =>
         /\ pat.pc = "raised" => SomeRaised(calls[pat.call].children)
         /\ pat.pc = "returned" =>
              /\ Len(pat.ret.v) = Len(pat.input)
              /\ \A n \in 1..Len(pat.input) :
                   CarriesFailure(pat.ret.v[n], inv[calls[pat.call].children[n]])
    /\ pat.kind = "pipeline" =>
         /\ pat.pc = "raised" => inv[Len(inv)].pc = "raised"
         /\ pat.pc = "stage" => inv[Len(inv)].pc = "running"
         /\ \A n \in 1..Len(inv) - 1 : inv[n].pc = "returned"
         /\ pat.pc = "returned" =>
              /\ Len(Field(pat.ret, "stages").v) = Len(pat.input)
              /\ \A n \in 1..Len(pat.input) :
                   /\ inv[n].pc = "returned"
                   /\ CarriesFailure(Field(pat.ret, "stages").v[n], inv[n])

\* a dispatch to two agents has returned two entries; the process of the
\* first entry exited non-zero before the second entry's process, which then
\* ran to a successful end
C11_Witness ==
    \E c \in 1..Len(calls) :
        /\ calls[c].kind = "dispatch"
        /\ calls[c].pc = "returned"
        /\ Len(calls[c].ret.v) = 2
        /\ inv[calls[c].children[1]].proc.returncode = 1
        /\ inv[calls[c].children[2]].proc.returncode = 0
        /\ Field(calls[c].ret.v[1], "success") = PyBool(FALSE)
        /\ Field(calls[c].ret.v[2], "success") = PyBool(TRUE)
        /\ Field(swarm["main"].history[1], "agent")
             = PyStr(Lit(inv[calls[c].children[1]].agent_name))

\* C12: no exception crosses an operation's boundary: whatever the process
\* does, the failure to spawn it included, no coroutine of invoke, run_prompt
\* or run_task and no dispatch or broadcast ever ends by raising.
C12_NoException ==
    /\ \A i \in 1..Len(inv) : inv[i].pc # "raised"
    /\ \A c \in 1..Len(calls) : calls[c].pc # "raised"

(***************************************************************************)
(* invoke and run_prompt called directly on a Swarm that was loaded with   *)
(* an agent, its memory and a shared context.                              *)
(***************************************************************************)
NextDirect ==
    \/ \E ok \in BOOLEAN : CallInvoke("a", NextTask(1), ok)
    \/ \E ok \in BOOLEAN : CallRunPrompt(NextTask(1), PyNone, ok)
    \/ \E i \in 1..Len(inv), ok \in BOOLEAN : Resume(i, ok)
    \/ \E i \in 1..Len(inv), outcome \in ProcOutcomes : Complete(i, outcome)

SpecDirect == InitPrompt /\ [][NextDirect]_vars

\* what _invoke_claude handed to the coroutine that completes: the record
\* the caller logs holds it as "result"
Handed(sw) == Field(swarm'[sw].history[Len(swarm'[sw].history)], "result")

\* only the caller's own appends happen in the step: one History record, and
\* for invoke one memory record of its agent
OnlyCallerAppends(i) ==
    /\ shared_context' = shared_context
    /\ agents' = agents
    /\ Len(swarm'[inv[i].sw].history) = Len(swarm[inv[i].sw].history) + 1
    /\ IsPrefix(swarm[inv[i].sw].history, swarm'[inv[i].sw].history)
    /\ \A o \in 1..Len(heap) :
         IF inv[i].kind = "invoke" /\ inv[i].agent = o
         THEN /\ Len(heap'[o].memory) = Len(heap[o].memory) + 1
              /\ IsPrefix(heap[o].memory, heap'[o].memory)
         ELSE heap'[o] = heap[o]

\* C13: the process invoker classifies a completed process by exit code and
\* output only: zero and parseable stdout give success true with the parsed
\* value; zero and unparseable stdout give success true with the trimmed raw
\* text; non-zero gives success false with the trimmed stderr and the exit
\* code; and it changes no memory, shared context or History itself (the
\* step holds nothing but the caller's appends).
C13_Classification ==
    [][ \A i \in 1..Len(inv) :
          Completing(i) =>
            LET proc == inv'[i].proc
                got == Handed(inv[i].sw)
            IN /\ OnlyCallerAppends(i)
               /\ (proc.returncode = 0 /\ Parses(proc.stdout)) =>
                     got = PyDict(<< <<"success", PyBool(TRUE)>>,
                                     <<"result", FromJson(proc.stdout.v)>> >>)
               /\ (proc.returncode = 0 /\ ~Parses(proc.stdout)) =>
                     got = PyDict(<< <<"success", PyBool(TRUE)>>,
                                     <<"result", PyStr([proc.stdout EXCEPT !.v.ws = FALSE])>> >>)
               /\ proc.returncode # 0 =>
                     got = PyDict(<< <<"success", PyBool(FALSE)>>,
                                     <<"error", PyStr([proc.stderr EXCEPT !.v.ws = FALSE])>>,
                                     <<"returncode", PyInt(proc.returncode)>> >>)
      ]_vars

\* a process whose stdout does not parse has exited with zero on an agent
\* that had a memory, under a shared context: the result is a success
\* holding the trimmed text
C13_Witness ==
    /\ shared_context # <<>>
    /\ \E i \in 1..Len(inv) :
         /\ inv[i].pc = "returned"
         /\ inv[i].kind = "invoke"
         /\ inv[i].proc.returncode = 0
         /\ ~Parses(inv[i].proc.stdout)
         /\ Len(heap[inv[i].agent].memory) > 1
         /\ Field(inv[i].result, "success") = PyBool(TRUE)
         /\ Field(inv[i].result, "result") = PyStr(Lit("not json"))

\* C14: the completion of run_prompt appends exactly one record to History,
\* with agent none, the prompt as task and the result it returns, and leaves
\* every agent's memory, the registry and the shared context as they were,
\* whatever the process did.
C14_RunPromptLogsOnly ==
    [][ \A i \in 1..Len(inv) :
          (inv[i].kind = "run_prompt" /\ Completing(i)) =>
             /\ swarm'[inv[i].sw].history =
                  Append(swarm[inv[i].sw].history,
                         swarm'[inv[i].sw].history[Len(swarm'[inv[i].sw].history)])
             /\ LET h == swarm'[inv[i].sw].history[Len(swarm'[inv[i].sw].history)]
                IN /\ Field(h, "agent") = PyNone
                   /\ Field(h, "task") = PyStr(inv[i].prompt)
                   /\ Field(h, "result") = inv'[i].result
                   /\ Field(h, "result") # PyNone
             /\ heap' = heap
             /\ agents' = agents
             /\ shared_context' = shared_context
      ]_vars

\* two run_prompt calls have completed, one process having failed, on a
\* Swarm whose agent has a memory and whose shared context is set: History
\* holds their two records and nothing else
C14_Witness ==
    /\ shared_context # <<>>
    /\ Len(heap) = 1 /\ heap[1].memory # <<>>
    /\ Len(inv) = 2
    /\ \A i \in 1..2 : inv[i].kind = "run_prompt" /\ inv[i].pc = "returned"
    /\ inv[1].proc.returncode = 1
    /\ Len(swarm["main"].history) = 2
    /\ \A n \in 1..2 : Field(swarm["main"].history[n], "agent") = PyNone

(***************************************************************************)
(* The gate under load: invoke, run_prompt, dispatch and broadcast called  *)
(* on one Swarm of two agents, one call more than in Spec.                 *)
(***************************************************************************)
InitGate ==
    /\ \E k \in 1..MaxK : swarm = [sw \in SwarmIds |-> NewSwarm(k)]
    /\ heap = [k \in 1..Len(InitialNames) |-> NewAgent(InitialNames[k])]
    /\ agents = [k \in 1..Len(InitialNames) |-> <<InitialNames[k], k>>]
    /\ shared_context = <<>>
    /\ inv = <<>>
    /\ ready = <<>>
    /\ calls = <<>>
    /\ clock = 0
    /\ file = NoFile
    /\ loaded = NotLoaded
    /\ cli = NoCli
    /\ pat = NoPattern
    /\ ops = 0 - 1

\* the gate does not look at what a process printed: it exits with zero or not
GateOutcomes == {o \in ProcOutcomes : Parses(o.stdout) \/ o.returncode # 0}

NextGate ==
    \/ \E ok \in BOOLEAN : CallInvoke("a", NextTask(1), ok)
    \/ \E ok \in BOOLEAN : CallRunPrompt(NextTask(1), PyNone, ok)
    \/ CallDispatch(<< <<"a", NextTask(1)>>, <<"b", NextTask(2)>> >>)
    \/ CallBroadcast(NextTask(1))
    \/ \E ok \in BOOLEAN : StartTask(ok)
    \/ \E i \in 1..Len(inv), ok \in BOOLEAN : Resume(i, ok)
    \/ \E i \in 1..Len(inv), outcome \in GateOutcomes : Complete(i, outcome)
    \/ \E c \in 1..Len(calls) : GatherReturn(c)
    \/ \E c \in 1..Len(calls) : GatherRaise(c)

SpecGate == InitGate /\ [][NextGate]_vars

\* the coroutines of Swarm sw that wait at the gate, not yet handed a permit
Queued(sw) == {i \in 1..Len(inv) : inv[i].sw = sw /\ inv[i].pc = "queued"}
Place(waiters, i) == CHOOSE n \in 1..Len(waiters) : waiters[n] = i

C16_EveryResultTagged ==
    \A c \in 1..Len(calls) :
        (calls[c].kind = "dispatch" /\ calls[c].pc = "returned")
        => \A k \in 1..Len(calls[c].input) :
              /\ HasField(calls[c].ret.v[k], "agent")
              /\ Field(calls[c].ret.v[k], "agent") = PyStr(Lit(calls[c].input[k][1]))

(***************************************************************************)
(* competitive: the solutions run on the Swarm fan_out constructs          *)
(* ("inner"), the judge on the pattern's own ("main").                     *)
(***************************************************************************)
Approaches ==
    <<Lit("Focus on code clarity and readability."),
      Lit("Focus on optimal performance and efficiency."),
      Lit("Focus on robustness and edge case handling.")>>

\* the hints are taken from the second on
CompetitiveTasksShifted(task, num_agents) ==
    [n \in 1..num_agents |->
        Cat(<<task, Lit("\n\nApproach: "), Approaches[(n % Len(Approaches)) + 1]>>)]

\* f"{task}\n\nApproach: {personas[i % len(personas)]}" for i in range(num_agents)
CompetitiveTasks(task, num_agents) ==
    [n \in 1..num_agents |->
        Cat(<<task, Lit("\n\nApproach: "), Approaches[((n - 1) % Len(Approaches)) + 1]>>)]

JudgePrompt(task, num_agents, solutions) ==
    Cat(<<Lit("You are a judge evaluating "), Num(num_agents),
          Lit(" solutions to this task:\n\n## Task\n"), task,
          Lit("\n\n## Solutions\n"), JsonText(JsonDumps(solutions, FALSE)),
          Lit("\n\nEvaluate each solution and select the best one. Explain your reasoning briefly, then output which solution index (0-"),
          Num(num_agents - 1), Lit(") is best.")>>)

CompetitiveReturn(task, solutions, judgment) ==
    PyDict(<< <<"task", PyStr(task)>>, <<"solutions", solutions>>,
              <<"judgment", judgment>> >>)

\* every coroutine of gather c has returned
GatherDone(c) ==
    \A n \in 1..Len(calls[c].children) : inv[calls[c].children[n]].pc = "returned"

CallCompetitive(task, num_agents, allowed_tools) ==
    /\ pat.kind = "none"
    /\ num_agents >= 1
    /\ LET tasks == CompetitiveTasks(task, num_agents)
       IN /\ swarm' = [sw \in SwarmIds |-> NewSwarm(num_agents)]
          /\ inv' = inv \o RunTasks(Len(calls) + 1, tasks, allowed_tools)
          /\ ready' = ready \o [n \in 1..Len(tasks) |-> Len(inv) + n]
          /\ calls' = Append(calls, FanOutGather(Len(inv), tasks))
          /\ pat' = [NoPattern EXCEPT !.kind = "competitive", !.input = <<task>>,
                                      !.k = num_agents, !.call = Len(calls) + 1,
                                      !.pc = "workers"]
    /\ UNCHANGED <<agents, heap, shared_context, clock, file, loaded, cli, ops>>

\* fan_out returns the solutions and the judge is called
SolutionsDone(spawnOk) ==
    /\ pat.kind = "competitive"
    /\ pat.pc = "workers"
    /\ GatherDone(pat.call)
    /\ LET solutions == FanOutResult(pat.call)
           st == RunPrompt([s |-> swarm["main"], iv |-> inv],
                           JudgePrompt(pat.input[1], pat.k, solutions), PyNone, spawnOk)
       IN /\ swarm' = [swarm EXCEPT !["main"] = st.s]
          /\ inv' = st.iv
          /\ calls' = [calls EXCEPT ![pat.call].pc = "returned",
                                    ![pat.call].ret = GatherValues(pat.call)]
          /\ pat' = [pat EXCEPT !.workers = solutions, !.cur = Len(st.iv),
                                !.pc = AfterRunPrompt(st, "final")]
    /\ UNCHANGED <<agents, heap, shared_context, ready, clock, file, loaded, cli, ops>>

\* a coroutine of the fan_out raised: fan_out raises, and so does the pattern
\* (competitive and map_reduce alike)
FannedRaise ==
    /\ pat.kind \in {"competitive", "map_reduce"}
    /\ pat.pc = "workers"
    /\ SomeRaised(calls[pat.call].children)
    /\ calls' = [calls EXCEPT ![pat.call].pc = "raised"]
    /\ pat' = [pat EXCEPT !.pc = "raised"]
    /\ UNCHANGED <<swarm, agents, heap, shared_context, inv, ready, clock, file, loaded, cli, ops>>

JudgeDone(outcome) ==
    /\ pat.kind = "competitive"
    /\ pat.pc = "final"
    /\ inv[pat.cur].pc = "running"
    /\ LET done == Finish(pat.cur, outcome)
       IN /\ swarm' = [swarm EXCEPT !["main"] = done.s]
          /\ inv' = done.iv
          /\ pat' = [pat EXCEPT
                        !.pc = "returned",
                        !.ret = CompetitiveReturn(pat.input[1], pat.workers,
                                                  done.iv[pat.cur].result)]
    /\ clock' = clock + 1
    /\ UNCHANGED <<agents, heap, shared_context, ready, calls, file, loaded, cli, ops>>

(***************************************************************************)
(* map_reduce: the map tasks run on the Swarm fan_out constructs           *)
(* ("inner"); the Swarm of the reduce ("main") is constructed after them.  *)
(***************************************************************************)
\* map_prompt.format(item=item)
Format(template, item) == [t |-> "format", v |-> <<template, item>>]

ReducePrompt(reduce_prompt, map_results) ==
    Cat(<<reduce_prompt, Lit("\n\n## Map Results\n"),
          JsonText(JsonDumps(map_results, FALSE))>>)

MapReduceReturn(items, map_results, reduce_result) ==
    PyDict(<< <<"items", PyList([n \in 1..Len(items) |-> PyStr(items[n])])>>,
              <<"map_results", map_results>>,
              <<"reduce_result", reduce_result>> >>)

\* an empty item list: fan_out returns at once and the reduce is called
CallMapReduce(items, map_prompt, reduce_prompt, max_concurrent, allowed_tools, spawnOk) ==
    /\ pat.kind = "none"
    /\ LET tasks == [n \in 1..Len(items) |-> Format(map_prompt, items[n])]
           st == IF tasks = <<>>
                 THEN RunPrompt([s |-> NewSwarm(DefaultMaxConcurrent), iv |-> inv],
                                ReducePrompt(reduce_prompt, PyList(SortedByIndex(<<>>))),
                                allowed_tools, spawnOk)
                 ELSE [s |-> swarm["main"],
                       iv |-> inv \o RunTasks(Len(calls) + 1, tasks, allowed_tools)]
       IN /\ swarm' = [swarm EXCEPT !["inner"] = NewSwarm(max_concurrent),
                                    !["main"] = st.s]
          /\ inv' = st.iv
          /\ ready' = ready \o [n \in 1..Len(tasks) |-> Len(inv) + n]
          /\ calls' = Append(calls, FanOutGather(Len(inv), tasks))
          /\ pat' = [NoPattern EXCEPT
                        !.kind = "map_reduce", !.input = items,
                        !.results = <<reduce_prompt, allowed_tools>>,
                        !.k = max_concurrent, !.call = Len(calls) + 1,
                        !.cur = IF tasks = <<>> THEN Len(st.iv) ELSE 0,
                        !.workers = IF tasks = <<>> THEN PyList(<<>>) ELSE PyNone,
                        !.pc = IF tasks = <<>> THEN AfterRunPrompt(st, "final")
                               ELSE "workers"]
    /\ UNCHANGED <<agents, heap, shared_context, clock, file, loaded, cli, ops>>

\* fan_out returns the map results, the Swarm of the reduce is constructed
\* and the reduce is called
MapDone(spawnOk) ==
    /\ pat.kind = "map_reduce"
    /\ pat.pc = "workers"
    /\ GatherDone(pat.call)
    /\ LET map_results == FanOutResult(pat.call)
           st == RunPrompt([s |-> NewSwarm(DefaultMaxConcurrent), iv |-> inv],
                           ReducePrompt(pat.results[1], map_results),
                           pat.results[2], spawnOk)
       IN /\ swarm' = [swarm EXCEPT !["main"] = st.s]
          /\ inv' = st.iv
          /\ calls' = [calls EXCEPT ![pat.call].pc = "returned",
                                    ![pat.call].ret = GatherValues(pat.call)]
          /\ pat' = [pat EXCEPT !.workers = map_results, !.cur = Len(st.iv),
                                !.pc = AfterRunPrompt(st, "final")]
    /\ UNCHANGED <<agents, heap, shared_context, ready, clock, file, loaded, cli, ops>>

ReduceDone(outcome) ==
    /\ pat.kind = "map_reduce"
    /\ pat.pc = "final"
    /\ inv[pat.cur].pc = "running"
    /\ LET done == Finish(pat.cur, outcome)
       IN /\ swarm' = [swarm EXCEPT !["main"] = done.s]
          /\ inv' = done.iv
          /\ pat' = [pat EXCEPT
                        !.pc = "returned",
                        !.ret = MapReduceReturn(pat.input, pat.workers,
                                                done.iv[pat.cur].result)]
    /\ clock' = clock + 1
    /\ UNCHANGED <<agents, heap, shared_context, ready, calls, file, loaded, cli, ops>>

(***************************************************************************)
(* The three patterns that fan out and then run one final prompt.          *)
(***************************************************************************)
NextPhases ==
    \/ \E goal \in PatternTexts, k \in 1..MaxK, ok \in BOOLEAN :
         CallHierarchical(goal, DefaultMaxSubtasks, k, PyNone, ok)
    \/ \E outcome \in PlannerOutcomes, ok \in BOOLEAN : PlannerDone(outcome, ok)
    \/ \E ok \in BOOLEAN : WorkersDone(ok)
    \/ WorkersRaise
    \/ \E outcome \in ProcOutcomes : SynthesisDone(outcome)
    \/ \E n \in 1..MaxAgents : CallCompetitive(Lit("t1"), n, PyNone)
    \/ \E ok \in BOOLEAN : SolutionsDone(ok)
    \/ \E outcome \in ProcOutcomes : JudgeDone(outcome)
    \/ \E items \in TaskLists, k \in 1..MaxK, ok \in BOOLEAN :
         CallMapReduce(items, Lit("map {item}"), Lit("reduce"), k, PyNone, ok)
    \/ \E ok \in BOOLEAN : MapDone(ok)
    \/ \E outcome \in ProcOutcomes : ReduceDone(outcome)
    \/ FannedRaise
    \/ \E ok \in BOOLEAN : StartTask(ok)
    \/ \E i \in 1..Len(inv), ok \in BOOLEAN : Resume(i, ok)
    \/ \E i \in 1..Len(inv), outcome \in ProcOutcomes : CompleteTask(i, outcome)

SpecPhases == InitPattern /\ [][NextPhases]_vars

\* the final prompts of a pattern: its run_prompt coroutines, the planner of
\* hierarchical apart
Finals ==
    {i \in 1..Len(inv) :
        inv[i].kind = "run_prompt" /\ ~(pat.kind = "hierarchical" /\ i = 1)}

\* the process of coroutine i has exited
Exited(i) == inv[i].pc = "returned" /\ inv[i].proc.returncode >= 0

\* C17: in hierarchical, competitive and map_reduce the phases never overlap:
\* a worker of hierarchical exists only once the planner's process has
\* exited; the final prompt (synthesis, judge, reduce) is run at most once,
\* exactly once when the pattern returns, and only when the process of every
\* fanned-out task has exited, and its prompt holds the serialization of all
\* their results in input order; and the processes in flight never exceed
\* the pattern's bound (max_concurrent, num_agents for competitive).
C17_PhasesInOrder ==
    pat.kind \in {"hierarchical", "competitive", "map_reduce"}
    => /\ pat.kind = "hierarchical" => \A w \in Workers : Exited(1)
       /\ Cardinality(Finals) <= 1
       /\ pat.pc = "returned" => \E f \in Finals : Exited(f)
       /\ \A f \in Finals :
            /\ \A w \in Workers : Exited(w)
            /\ Workers = {calls[pat.call].children[n] : n \in 1..Len(calls[pat.call].children)}
            /\ \E n \in 1..Len(inv[f].prompt.v) :
                 inv[f].prompt.v[n] =
                   Serialized(PyList([m \in 1..Len(calls[pat.call].children) |->
                                         inv[calls[pat.call].children[m]].result]))
       /\ Cardinality(InFlight("main") \cup InFlight("inner")) <= pat.k

\* hierarchical with max_concurrent 1: the planner gave two subtasks, the two
\* workers ran one after the other, the second failing, and the synthesis
\* process is in flight alone
C17_Witness ==
    /\ pat.kind = "hierarchical"
    /\ pat.pc = "synthesis"
    /\ pat.k = 1
    /\ Cardinality(Workers) = 2
    /\ \E w \in Workers : inv[w].proc.returncode = 1
    /\ inv[pat.cur].pc = "running"
    /\ InFlight("main") \cup InFlight("inner") = {pat.cur}

\* the three hints, by number
Hint(i) ==
    CASE i = 0 -> Lit("Focus on code clarity and readability.")
      [] i = 1 -> Lit("Focus on optimal performance and efficiency.")
      [] i = 2 -> Lit("Focus on robustness and edge case handling.")

\* C18: competitive(task, num_agents) runs exactly num_agents solution tasks,
\* the i-th (from zero) on the task with hint number i mod 3 appended; the
\* solutions it hands to the judge and returns are num_agents, in index
\* order, each recording its prompt; and no more than one judge is run,
\* exactly one when it returns.
C18_CompetitiveSolutions ==
    pat.kind = "competitive"
    => /\ Cardinality(Workers) = pat.k
       /\ \A n \in 1..pat.k :
            inv[calls[pat.call].children[n]].prompt =
              Cat(<<pat.input[1], Lit("\n\nApproach: "), Hint((n - 1) % 3)>>)
       /\ pat.pc \in {"final", "returned"} =>
            /\ Len(pat.workers.v) = pat.k
            /\ \A n \in 1..pat.k :
                 /\ Field(pat.workers.v[n], "index") = PyInt(n - 1)
                 /\ Field(pat.workers.v[n], "task") =
                      PyStr(Cat(<<pat.input[1], Lit("\n\nApproach: "), Hint((n - 1) % 3)>>))
                 /\ Field(pat.workers.v[n], "success") =
                      PyBool(inv[calls[pat.call].children[n]].proc.returncode = 0)
       /\ Cardinality(Finals) <= 1
       /\ pat.pc = "returned" =>
            /\ Cardinality(Finals) = 1
            /\ Field(pat.ret, "solutions") = pat.workers
            /\ \A f \in Finals : Field(pat.ret, "judgment") = inv[f].result

\* competitive with four agents has returned: the fourth solution was asked
\* with the first hint again, and one judge ran
C18_Witness ==
    /\ pat.kind = "competitive"
    /\ pat.pc = "returned"
    /\ pat.k = 4
    /\ Len(Field(pat.ret, "solutions").v) = 4
    /\ Field(Field(pat.ret, "solutions").v[4], "task") =
         PyStr(Cat(<<pat.input[1], Lit("\n\nApproach: "), Hint(0)>>))
    /\ Cardinality(Finals) = 1

\* the max_subtasks hierarchical was called with: the number in its plan prompt
MaxSubtasksAsked == inv[1].prompt.v[2].v

\* C19: the number of subtasks hierarchical fans out to workers is at most
\* max_subtasks, whatever list the planner returns.
C19_AtMostMaxSubtasks ==
    pat.kind = "hierarchical" => Cardinality(Workers) <= MaxSubtasksAsked

(***************************************************************************)
(* dispatch, broadcast and fan_out under a fair event loop: a task that is *)
(* ready is run, a woken waiter is resumed, a spawned process exits, a     *)
(* gather whose coroutines are done resumes its caller.                    *)
(***************************************************************************)
NextLive ==
    \/ \E a \in Assignments : CallDispatch(a)
    \/ CallBroadcast(NextTask(1))
    \/ \E tasks \in TaskLists, k \in 1..MaxK : Fresh /\ CallFanOut(tasks, k, PyNone)
    \/ \E ok \in BOOLEAN : StartTask(ok)
    \/ \E i \in 1..Len(inv), ok \in BOOLEAN : Resume(i, ok)
    \/ \E i \in 1..Len(inv), outcome \in ProcOutcomes : CompleteChild(i, outcome)
    \/ \E c \in 1..Len(calls) : DispatchReturn(c)
    \/ \E c \in 1..Len(calls) : DispatchRaise(c)
    \/ FanOutReturn
    \/ FanOutRaise

\* the most coroutines and gathers a behaviour of NextLive makes
LiveInvs == 1..(IF MaxOps > MaxTasks THEN MaxOps ELSE MaxTasks)
LiveCalls == 1..MaxOps

FairLoop ==
    /\ WF_vars(\E ok \in BOOLEAN : StartTask(ok))
    /\ \A i \in LiveInvs :
         /\ WF_vars(i <= Len(inv) /\ \E ok \in BOOLEAN : Resume(i, ok))
         /\ WF_vars(i <= Len(inv) /\ \E outcome \in ProcOutcomes : CompleteChild(i, outcome))
    /\ \A c \in LiveCalls :
         /\ WF_vars(c <= Len(calls) /\ DispatchReturn(c))
         /\ WF_vars(c <= Len(calls) /\ DispatchRaise(c))
    /\ WF_vars(FanOutReturn)
    /\ WF_vars(FanOutRaise)

SpecLive == Init /\ [][NextLive]_vars /\ FairLoop

\* C20: every coroutine made by dispatch, broadcast or fan_out eventually
\* passes the gate and runs to its end, and the call that made it eventually
\* returns with all its results.
C20_EventuallyReturns ==
    /\ \A i \in LiveInvs : (i <= Len(inv)) ~> (i <= Len(inv) /\ inv[i].pc = "returned")
    /\ \A c \in LiveCalls : (c <= Len(calls)) ~> (c <= Len(calls) /\ calls[c].pc = "returned")
    /\ (pat.kind = "fan_out") ~> (pat.pc = "returned")

(***************************************************************************)
(* cli.py, handle_manage with action "invoke": each command-line process   *)
(* loads the state file into a Swarm of its own, awaits one invoke and     *)
(* saves.  Path.read_text and Path.write_text are taken as single steps.   *)
(* A process holds one invocation, so its gate (five permits) never makes  *)
(* it wait.                                                                *)
(***************************************************************************)
\* swarm = Swarm.load(state_file, cwd=args.cwd); result = await swarm.invoke(...)
\* up to the first suspension; an unregistered name returns at once and the
\* state is saved in the same step
CliInvokeStart(p, agent_name, task, spawnOk) ==
    /\ cli.run[p].pc = "idle"
    /\ LET state == LoadState(file)
           read == Append(cli.log, <<p, "load">>)
           found == HasKey(state.agents, agent_name)
           started == [NotStarted EXCEPT !.state = state,
                                         !.agent_name = agent_name,
                                         !.task = Lit(task)]
       IN IF ~found
          THEN /\ cli' = [run |-> [cli.run EXCEPT
                                     ![p] = [started EXCEPT
                                               !.pc = "saved",
                                               !.ret = NotFoundResult(agent_name)]],
                          log |-> Append(read, <<p, "save">>)]
               /\ file' = SaveText(state)
          ELSE /\ cli' = [run |-> [cli.run EXCEPT
                                     ![p] = [started EXCEPT
                                               !.pc = IF spawnOk THEN "running" ELSE "raised",
                                               !.prompt =
                                                   BuildPrompt(DictGet(state.agents, agent_name, 0),
                                                               state.shared_context, Lit(task))]],
                          log |-> read]
               /\ file' = file
    /\ UNCHANGED <<swarm, agents, heap, shared_context, inv, ready, calls, clock, loaded, pat, ops>>

\* the process's claude exits: invoke appends to the agent's memory and to the
\* history of the Swarm this process loaded, returns, and the state is saved
CliInvokeFinish(p, outcome) ==
    /\ cli.run[p].pc = "running"
    /\ LET r == [kind |-> "invoke", agent_name |-> cli.run[p].agent_name,
                 task |-> cli.run[p].task, prompt |-> cli.run[p].prompt]
           result == InvokeClaudeResult(outcome)
           was == cli.run[p].state
           n == KeyIndex(was.agents, r.agent_name)
           state == [was EXCEPT
                        !.agents[n][2].memory = MemoryAfter(@, r, result),
                        !.history = HistoryAfter(@, r, result)]
       IN /\ cli' = [run |-> [cli.run EXCEPT
                                ![p].pc = "saved",
                                ![p].state = state,
                                ![p].ret = InvokeReturn(r.agent_name, result)],
                     log |-> Append(cli.log, <<p, "save">>)]
          /\ file' = SaveText(state)
    /\ clock' = clock + 2
    /\ UNCHANGED <<swarm, agents, heap, shared_context, inv, ready, calls, loaded, pat, ops>>

\* the state files the processes find: none, or one saved by an earlier run
\* with one or two agents, memories of no or two records, a shared context
\* of no or one key and a history of none or a hundred entries
StateFiles ==
    {NoFile} \cup
    { SaveText([agents |-> [k \in 1..n |->
                              <<InitialNames[k],
                                [NewAgent(InitialNames[k]) EXCEPT
                                    !.memory = [e \in 1..m |-> LoadedRecord(e)]]>>],
                shared_context |-> ctx,
                history |-> [e \in 1..h |-> LoggedRecord(e)]]) :
        n \in 1..Len(InitialNames), m \in {0, 2},
        ctx \in {<<>>, << <<"k", PyInt(1)>> >>}, h \in {0, HistoryKeep} }

InitCli ==
    /\ swarm = [sw \in SwarmIds |-> NewSwarm(DefaultMaxConcurrent)]
    /\ heap = <<>>
    /\ agents = <<>>
    /\ shared_context = <<>>
    /\ inv = <<>>
    /\ ready = <<>>
    /\ calls = <<>>
    /\ clock = 0
    /\ file \in StateFiles
    /\ loaded = NotLoaded
    /\ cli = NoCli
    /\ pat = NoPattern
    /\ ops = 0

NextCli ==
    \/ \E p \in CliProcs, name \in Names, ok \in BOOLEAN :
          CliInvokeStart(p, name, "t1", ok)
    \/ \E p \in CliProcs, outcome \in ProcOutcomes : CliInvokeFinish(p, outcome)

SpecCli == InitCli /\ [][NextCli]_vars

\* where in the order of file accesses process p read and wrote the file
LoadAt(p) == CHOOSE n \in 1..Len(cli.log) : cli.log[n] = <<p, "load">>
SaveAt(p) == CHOOSE n \in 1..Len(cli.log) : cli.log[n] = <<p, "save">>
\* the process loaded, invoked a registered agent and saved
RanInvoke(p) ==
    /\ cli.run[p].pc = "saved"
    /\ HasKey(cli.run[p].state.agents, cli.run[p].agent_name)
\* the records the invoke of process p appended, as they read back from a file
Stored(value) == FromJson(JsonDumps(value, TRUE))
MemoryOf(state, name) == DictGet(state.agents, name, 0).memory
AppendedMemory(p) ==
    LET memory == MemoryOf(cli.run[p].state, cli.run[p].agent_name)
    IN Stored(memory[Len(memory)])
AppendedHistory(p) ==
    Stored(cli.run[p].state.history[Len(cli.run[p].state.history)])
Places(seq, x) == {n \in 1..Len(seq) : seq[n] = x}
InOrder(seq, x, y) == \E n \in Places(seq, x), m \in Places(seq, y) : n < m

\* C21: when two command-line processes each load the state file, invoke a
\* registered agent and save, and the one that saved last had loaded before
\* the other saved (the spans overlap), the file holds exactly the state of
\* the process that saved last and neither the memory record nor the history
\* record of the other; when the later process loaded after the other saved,
\* the records of both are in the file, the earlier process's first.
C21_LastSaveWins ==
    \A p, q \in CliProcs :
        (/\ p # q /\ RanInvoke(p) /\ RanInvoke(q)
         /\ SaveAt(p) < SaveAt(q))
        => LET held == LoadState(file)
               mine == cli.run[q].agent_name
               theirs == cli.run[p].agent_name
           IN IF LoadAt(q) < SaveAt(p)
              THEN /\ file = SaveText(cli.run[q].state)
                   /\ Places(held.history, AppendedHistory(p)) = {}
                   /\ \A name \in Names :
                        HasKey(held.agents, name) =>
                           Places(MemoryOf(held, name), AppendedMemory(p)) = {}
                   /\ Places(held.history, AppendedHistory(q)) # {}
                   /\ Places(MemoryOf(held, mine), AppendedMemory(q)) # {}
              ELSE /\ InOrder(held.history, AppendedHistory(p), AppendedHistory(q))
                   /\ Places(MemoryOf(held, theirs), AppendedMemory(p)) # {}
                   /\ Places(MemoryOf(held, mine), AppendedMemory(q)) # {}
                   /\ mine = theirs =>
                        InOrder(MemoryOf(held, mine), AppendedMemory(p), AppendedMemory(q))

\* two processes invoked the same agent with overlapping spans and both saved
C21_Witness ==
    /\ RanInvoke(1) /\ RanInvoke(2)
    /\ cli.run[1].agent_name = cli.run[2].agent_name
    /\ SaveAt(1) < SaveAt(2)
    /\ LoadAt(2) < SaveAt(1)
    /\ Len(LoadState(file).history) = HistoryKeep

(***************************************************************************)
(* Order of the results of dispatch.                                       *)
(***************************************************************************)
\* what the invoke of coroutine r returns once it has ended
Answer(r) ==
    IF r.agent = 0 THEN NotFoundResult(r.agent_name)
    ELSE InvokeReturn(r.agent_name, InvokeClaudeResult(r.proc))

\* C22: a dispatch that returns has one result per entry of the assignments
\* map, in the map's iteration order: the k-th result is what the invoke of
\* the k-th entry's agent on the k-th entry's task returned, in whatever
\* order the external processes exited.
C22_DispatchInOrder ==
    \A c \in 1..Len(calls) :
        (calls[c].kind = "dispatch" /\ calls[c].pc = "returned")
        => /\ Len(calls[c].ret.v) = Len(calls[c].input)
           /\ \A k \in 1..Len(calls[c].input) :
                LET r == inv[calls[c].children[k]]
                IN /\ r.agent_name = calls[c].input[k][1]
                   /\ r.task = Lit(calls[c].input[k][2])
                   /\ calls[c].ret.v[k] = Answer(r)

\* a dispatch to "b" then "a" has returned; the process of "a" exited first,
\* with output that is no JSON, and the process of "b" after it
C22_Witness ==
    \E c \in 1..Len(calls) :
        /\ calls[c].kind = "dispatch"
        /\ calls[c].pc = "returned"
        /\ Len(calls[c].input) = 2
        /\ calls[c].input[1][1] = "b" /\ calls[c].input[2][1] = "a"
        /\ LET first == inv[calls[c].children[1]]
               second == inv[calls[c].children[2]]
           IN /\ first.agent # 0 /\ second.agent # 0
              /\ ~Parses(second.proc.stdout) /\ second.proc.returncode = 0
              /\ Parses(first.proc.stdout)
              /\ Len(swarm["main"].history) = 2
              /\ Field(swarm["main"].history[1], "task") = PyStr(second.task)
              /\ Field(swarm["main"].history[2], "task") = PyStr(first.task)

(***************************************************************************)
(* The permits of the gate.                                                *)
(***************************************************************************)
\* the coroutines of a Swarm that are between acquire and release, or wait
\* in acquire
Pending(sw) ==
    {i \in 1..Len(inv) : inv[i].sw = sw /\ inv[i].pc \in {"queued", "admitted", "running"}}

\* C23: in every reachable state of a Swarm with limit k the free permits of
\* its gate plus the invocations that hold a permit (handed the permit, or
\* with a process running) are k; an invocation whose process has exited,
\* with zero or not, holds none, and when no invocation is waiting or in
\* flight all k permits are free.
C23_PermitConservation ==
    \A sw \in SwarmIds :
        /\ swarm[sw].value + Cardinality(InGate(sw)) = swarm[sw].max_concurrent
        /\ swarm[sw].value >= 0
        /\ Pending(sw) = {} => swarm[sw].value = swarm[sw].max_concurrent

\* a process exited non-zero and its permit was handed to the invocation
\* that waited, which has not resumed yet: no permit is free, none is lost
C23_Witness ==
    /\ Len(inv) = 2
    /\ inv[1].pc = "returned" /\ inv[1].proc.returncode = 1
    /\ inv[2].pc = "admitted"
    /\ swarm["main"].waiters = <<2>>
    /\ swarm["main"].max_concurrent = 1
    /\ swarm["main"].value = 0

(***************************************************************************)
(* When the prompt of an invoke is assembled.  The Swarm is used as a      *)
(* library under a fair event loop: a task that is ready runs, a waiter    *)
(* that was handed the permit resumes, a process that was spawned exits.   *)
(***************************************************************************)
\* the most coroutines and gathers a behaviour of Next makes
SwarmInvs == 1..MaxOps

FairSwarm ==
    /\ WF_vars(\E ok \in BOOLEAN : StartTask(ok))
    /\ \A i \in SwarmInvs :
         /\ WF_vars(i <= Len(inv) /\ \E ok \in BOOLEAN : Resume(i, ok))
         /\ WF_vars(i <= Len(inv) /\ \E outcome \in ProcOutcomes : Complete(i, outcome))
    /\ \A c \in SwarmInvs :
         /\ WF_vars(c <= Len(calls) /\ GatherReturn(c))
         /\ WF_vars(c <= Len(calls) /\ GatherRaise(c))

SpecFair == Init /\ [][Next]_vars /\ FairSwarm

Ended(i) == inv[i].pc \in {"returned", "raised"}

\* invoke has been called for i and for j on the same agent name, and neither
\* call has ended
CalledTogether(i, j) ==
    /\ i <= Len(inv) /\ j <= Len(inv)
    /\ inv[i].kind = "invoke" /\ inv[j].kind = "invoke"
    /\ inv[i].agent_name = inv[j].agent_name
    /\ ~Ended(i) /\ ~Ended(j)

\* the memory block of j's prompt lists the record of i's task
ListsRecordOf(j, i) ==
    /\ i <= Len(inv) /\ j <= Len(inv)
    /\ inv[j].prompt.t = "join"
    /\ \E n \in PartsOfKind(inv[j].prompt, "memory") :
          LET listed == inv[j].prompt.v[n].text.v[2].v.v
          IN \E e \in 1..Len(listed) :
                DictGet(listed[e].v, "task", JNull) = JStr(inv[i].task)

\* the prompt of j is not the one that would be assembled now
Stale(j) ==
    /\ inv[j].kind = "invoke"
    /\ inv[j].agent # 0
    /\ inv[j].prompt # BuildPrompt(heap[inv[j].agent], shared_context, inv[j].task)

About(records, task) ==
    {n \in 1..Len(records) : Field(records[n], "task") = PyStr(task)}

\* the name i was invoked on is not registered any more, or is registered
\* with another Agent object than the one i holds
Displaced(i) ==
    /\ inv[i].kind = "invoke"
    /\ inv[i].agent # 0
    /\ DictGet(agents, inv[i].agent_name, 0) # inv[i].agent

\* the returned invokes that took Agent object o
ReturnedOn(o) ==
    {i \in 1..Len(inv) : inv[i].kind = "invoke" /\ inv[i].agent = o /\ inv[i].pc = "returned"}

\* C25: an invoke that has taken its Agent object from the registry (it
\* waits at the gate or its process runs) is not disturbed by remove_agent
\* or by add_agent on its name: it ends with the result of its process
\* tagged with the name, History has its record under the name, and its
\* memory record is in the memory of the object it took and of no other
\* Agent object, so not in that of the agent registered under the name
\* afterwards: the memory of every Agent object holds one record for each
\* returned invoke that took that object, and no other record.
C25_RecordOnCapturedAgent ==
    /\ \A i \in 1..Len(inv) :
          (inv[i].kind = "invoke" /\ inv[i].agent # 0)
          => /\ inv[i].pc \in {"queued", "admitted", "running", "returned", "raised"}
             /\ inv[i].pc = "returned" =>
                  /\ inv[i].result = Answer(inv[i])
                  /\ About(heap[inv[i].agent].memory, inv[i].task) # {}
                  /\ \E n \in About(swarm["main"].history, inv[i].task) :
                        Field(swarm["main"].history[n], "agent")
                           = PyStr(Lit(inv[i].agent_name))
    /\ \A o \in 1..Len(heap) :
          /\ Len(heap[o].memory) = Cardinality(ReturnedOn(o))
          /\ \A n \in 1..Len(heap[o].memory) :
                \E i \in ReturnedOn(o) :
                    Field(heap[o].memory[n], "task") = PyStr(inv[i].task)

\* "a" was registered anew while an invoke on "a" had its process running:
\* the invoke holds the first object, the registry the second
C25_Witness ==
    /\ Len(inv) = 1
    /\ inv[1].pc = "running"
    /\ Displaced(1)
    /\ HasKey(agents, inv[1].agent_name)
    /\ heap[DictGet(agents, inv[1].agent_name, 0)].memory = <<>>

(***************************************************************************)
(* Memory and History of one Swarm.                                        *)
(***************************************************************************)
TasksOf(records) == [n \in 1..Len(records) |-> Field(records[n], "task")]
\* the History entries tagged with `name`, in order
Tagged(name) ==
    LET IsTagged(rec) == Field(rec, "agent") = PyStr(Lit(name))
    IN SelectSeq(swarm["main"].history, IsTagged)
\* every Agent object ever made is the one registered under its name: no
\* agent has been removed or registered a second time
NoneDisplaced ==
    \A o \in 1..Len(heap) : DictGet(agents, heap[o].name, 0) = o

\* C26: in one Swarm, after any invoke, run_prompt, dispatch and broadcast
\* calls and as long as no agent has been removed or registered anew, the
\* tasks of every agent's memory are, in order, the tasks of the History
\* entries tagged with the agent's name (the order in which the processes
\* exited); and the length of History is the number of invocations whose
\* external process has exited.
C26_MemoryMirrorsHistory ==
    /\ NoneDisplaced =>
          \A k \in 1..Len(agents) :
              TasksOf(heap[agents[k][2]].memory) = TasksOf(Tagged(agents[k][1]))
    /\ Len(swarm["main"].history)
          = Cardinality({i \in 1..Len(inv) : inv[i].sw = "main" /\ Completed(i)})

\* two invokes on one agent were in flight together and the one called
\* second ended first: the memory and the tagged History both begin with it
C26_Witness ==
    /\ NoneDisplaced
    /\ Len(inv) = 2
    /\ inv[1].agent # 0 /\ inv[1].agent = inv[2].agent
    /\ Completed(1) /\ Completed(2)
    /\ TasksOf(heap[inv[1].agent].memory) = <<PyStr(inv[2].task), PyStr(inv[1].task)>>
    /\ Len(swarm["main"].history) = 2
====
